---- MODULE Spec2Model ----
(***************************************************************************)
(* GeoIP resolution and refresh engine of ytzcom/geoip.                    *)
(*                                                                         *)
(*   - GeoIPReader (geoip_reader.py): reader dictionary, query merge,      *)
(*     reload.                                                             *)
(*   - query_ips and the admin endpoints (app.py).                         *)
(*   - DatabaseUpdater / update_databases (api-server/database_updater.py).*)
(*   - the cache factory (cache.py).                                       *)
(*                                                                         *)
(* The server runs on one asyncio event loop: a handler is a sequence of   *)
(* atomic segments separated by the awaits that really suspend (network    *)
(* I/O, sleep).  Each atomic segment is one action.                        *)
(***************************************************************************)
EXTENDS Integers, Sequences, FiniteSets, TLC

VARIABLES
    live,       \* database -> the file at database_path/raw/<provider>/<file>
    temp,       \* database -> attempt -> the file at <file stem>.tmp.<attempt>
    databases,  \* GeoIPReader.databases: loaded kind -> reader handle
    loads,      \* number of _load_databases runs so far (reader generation)
    cycle,      \* refresh cycle -> state of that update_databases() call
    dl,         \* refresh cycle -> database -> state of download_database
    faults,     \* transient network faults injected so far
    remote,     \* database -> what the bucket serves for it
    cache_type, \* settings.cache_type
    cache,      \* the store behind app.py's module-level cache object
    reloads,    \* admin caller -> state of its POST /admin/databases/reload
    lastq,      \* history: what the last query_ips call did
    hist,       \* history: what the last reload_databases call did
    qin,        \* SpecQuery: the input of one GeoIPReader.query call
    qout,       \* SpecQuery: its result
    hub,        \* SpecCleanup: the tags of one Docker Hub repository
    cleaner,    \* SpecCleanup: state of DockerHubCleaner.cleanup_repository
    lock,       \* SpecLock: LOCK_FILE and the geoip-update processes using it
    cli         \* SpecCli: one GeoIPUpdater.download_database call of the CLI

vars == <<live, temp, databases, loads, cycle, dl, faults, remote, cache_type, cache,
          reloads, lastq, hist, qin, qout, hub, cleaner, lock, cli>>

lifecycle_vars == <<live, temp, databases, loads, cycle, dl, faults, remote, cache_type,
                    cache, reloads, lastq, hist>>

\* the variables of the API server, its readers and the Docker Hub cleaner
server_vars == <<qin, qout, hub, cleaner, lifecycle_vars>>

\* no geoip-update process has been started
NoLock == [path |-> {}, content |-> <<>>, holder |-> <<>>, proc |-> <<>>]

\* no GeoIPUpdater of the CLI has been constructed
NoCli == [pc |-> "none"]

(***************************************************************************)
(* Python values                                                           *)
(***************************************************************************)
None == "None"
EmptyDict == [k \in {} |-> None]

\* dict.update
Update(f, g) ==
    [k \in (DOMAIN f) \cup (DOMAIN g) |-> IF k \in DOMAIN g THEN g[k] ELSE f[k]]

\* {k: v for k, v in d.items() if k in keys}
Restrict(f, keys) == [k \in (DOMAIN f) \cap keys |-> f[k]]

(***************************************************************************)
(* The catalog of databases and the keys of GeoIPReader.databases          *)
(***************************************************************************)
Kinds ==
    {"maxmind_city", "maxmind_country", "maxmind_isp", "maxmind_connection_type",
     "ip2location_v4", "ip2location_v6", "ip2proxy"}

\* A reader's answer to one lookup: the library raises, returns nothing, or
\* returns a record of library attributes.
Raise == [st |-> "raise", rec |-> EmptyDict]
NoRecord == [st |-> "none", rec |-> EmptyDict]
Rec(r) == [st |-> "rec", rec |-> r]

\* output key -> attribute of the geoip2 city response
CityMap ==
    [country |-> "country.name", country_code |-> "country.iso_code",
     city |-> "city.name", region |-> "subdivisions.most_specific.name",
     postal_code |-> "postal.code", latitude |-> "location.latitude",
     longitude |-> "location.longitude", timezone |-> "location.time_zone",
     accuracy_radius |-> "location.accuracy_radius"]

CountryMap == [country |-> "country.name", country_code |-> "country.iso_code"]

IspMap ==
    [isp |-> "isp", organization |-> "organization",
     autonomous_system_number |-> "autonomous_system_number",
     autonomous_system_organization |-> "autonomous_system_organization"]

ConnectionTypeMap == [connection_type |-> "connection_type"]

\* output key -> attribute of the IP2Location record
Ip2LocationMap ==
    [country |-> "country_long", country_code |-> "country_short",
     region |-> "region", city |-> "city", latitude |-> "latitude",
     longitude |-> "longitude", isp |-> "isp", domain |-> "domain",
     usage_type |-> "usage_type", mobile_brand |-> "mobile_brand"]

\* the library attributes a map reads
Attributes(map) == {map[k] : k \in DOMAIN map}

\* data.update({key: response.<attribute>, ...})
Extract(map, rec) == [k \in DOMAIN map |-> rec[map[k]]]

\* ':' in ip
HasColon(ip) == ip \in {"2001:db8::1", "::1"}

(***************************************************************************)
(* GeoIPReader._query_maxmind                                              *)
(***************************************************************************)
\* Mutant of _query_maxmind: the Country reader is consulted whenever it is
\* loaded (if in place of elif)
_query_maxmind_country_always(dbs, R) ==
    LET d0 == IF "maxmind_city" \in dbs /\ R["maxmind_city"].st = "rec"
                THEN Extract(CityMap, R["maxmind_city"].rec)
                ELSE EmptyDict
        d1 == IF "maxmind_country" \in dbs /\ R["maxmind_country"].st = "rec"
                THEN Update(d0, Extract(CountryMap, R["maxmind_country"].rec))
                ELSE d0
        d2 == IF "maxmind_isp" \in dbs /\ R["maxmind_isp"].st = "rec"
                THEN Update(d1, Extract(IspMap, R["maxmind_isp"].rec))
                ELSE d1
    IN  IF "maxmind_connection_type" \in dbs
           /\ R["maxmind_connection_type"].st = "rec"
          THEN Update(d2, Extract(ConnectionTypeMap,
                                  R["maxmind_connection_type"].rec))
          ELSE d2

_query_maxmind(dbs, R) ==
    LET d1 == IF "maxmind_city" \in dbs
                THEN IF R["maxmind_city"].st = "rec"
                       THEN Extract(CityMap, R["maxmind_city"].rec)
                       ELSE EmptyDict
                ELSE IF "maxmind_country" \in dbs
                       THEN IF R["maxmind_country"].st = "rec"
                              THEN Extract(CountryMap, R["maxmind_country"].rec)
                              ELSE EmptyDict
                       ELSE EmptyDict
        d2 == IF "maxmind_isp" \in dbs /\ R["maxmind_isp"].st = "rec"
                THEN Update(d1, Extract(IspMap, R["maxmind_isp"].rec))
                ELSE d1
    IN  IF "maxmind_connection_type" \in dbs
           /\ R["maxmind_connection_type"].st = "rec"
          THEN Update(d2, Extract(ConnectionTypeMap,
                                  R["maxmind_connection_type"].rec))
          ELSE d2

(***************************************************************************)
(* GeoIPReader._query_ip2location                                          *)
(***************************************************************************)
\* the reader the address is looked up in, or None
Ip2LocationDb(dbs, ip) ==
    IF HasColon(ip) /\ "ip2location_v6" \in dbs THEN "ip2location_v6"
    ELSE IF "ip2location_v4" \in dbs THEN "ip2location_v4"
    ELSE None

_query_ip2location(dbs, R, ip) ==
    LET db == Ip2LocationDb(dbs, ip) IN
    IF db = None THEN EmptyDict
    ELSE IF R[db].st = "rec"
      THEN LET data == Extract(Ip2LocationMap, R[db].rec) IN
           Restrict(data, {k \in DOMAIN data : data[k] # None /\ data[k] # "-"})
      ELSE EmptyDict

(***************************************************************************)
(* GeoIPReader._query_ip2proxy                                             *)
(* proxy_type is kept as the list proxy_type.split(',') of stripped tokens *)
(***************************************************************************)
ProxyTypeOf(rec) == IF "proxy_type" \in DOMAIN rec THEN rec["proxy_type"] ELSE <<"-">>

Listed(ptype, proxy_type) ==
    proxy_type # <<"-">> /\ \E i \in 1..Len(proxy_type) : proxy_type[i] = ptype

\* Mutant of _query_ip2proxy: the three flags are read from proxy_type
\* whether or not the record is a proxy
_query_ip2proxy_flags_always(dbs, R) ==
    IF "ip2proxy" \notin dbs THEN EmptyDict
    ELSE IF R["ip2proxy"].st # "rec" THEN EmptyDict
    ELSE LET result == R["ip2proxy"].rec
             proxy_type == ProxyTypeOf(result)
         IN  [is_proxy |-> result["is_proxy"] > 0,
              is_vpn |-> Listed("VPN", proxy_type),
              is_tor |-> Listed("TOR", proxy_type),
              is_datacenter |-> Listed("DCH", proxy_type)]

_query_ip2proxy(dbs, R) ==
    IF "ip2proxy" \notin dbs THEN EmptyDict
    ELSE IF R["ip2proxy"].st # "rec" THEN EmptyDict
    ELSE LET result == R["ip2proxy"].rec
             is_proxy == result["is_proxy"] > 0
             proxy_type == ProxyTypeOf(result)
         IN  IF is_proxy
               THEN [is_proxy |-> TRUE,
                     is_vpn |-> Listed("VPN", proxy_type),
                     is_tor |-> Listed("TOR", proxy_type),
                     is_datacenter |-> Listed("DCH", proxy_type),
                     proxy_type |-> proxy_type]
               ELSE [is_proxy |-> FALSE, is_vpn |-> FALSE, is_tor |-> FALSE,
                     is_datacenter |-> FALSE]

(***************************************************************************)
(* GeoIPReader.get_database_status                                         *)
(***************************************************************************)
\* Mutant of get_database_status: the ip2location_v4 entry tests the v6 key
get_database_status_wrong_key(dbs) ==
    [k \in Kinds |-> IF k = "ip2location_v4" THEN "ip2location_v6" \in dbs ELSE k \in dbs]

get_database_status(dbs) == [k \in Kinds |-> k \in dbs]

(***************************************************************************)
(* GeoIPReader.query                                                       *)
(* A provenance entry is a str or a list: Str(p) / List(ps).               *)
(***************************************************************************)
Str(p) == [t |-> "str", v |-> <<p>>]
List(ps) == [t |-> "list", v |-> ps]

\* Mutant of essential_fields: accuracy_radius passes the filter
essential_fields_and_radius ==
    {"country", "country_code", "city", "region", "postal_code", "isp",
     "organization", "timezone", "is_proxy", "is_vpn", "usage_type",
     "latitude", "longitude", "accuracy_radius"}

essential_fields ==
    {"country", "country_code", "city", "region", "postal_code", "isp",
     "organization", "timezone", "is_proxy", "is_vpn", "usage_type",
     "latitude", "longitude"}

\* database_sources after the MaxMind step
SourcesMaxmind(maxmind_data) == [k \in DOMAIN maxmind_data |-> Str("MaxMind")]

\* database_sources after the IP2Location step; result is the merged dict
\* before result.update(ip2location_data)
SourcesIp2Location(sources, result, ip2location_data) ==
    Update(sources,
           [k \in DOMAIN ip2location_data |->
               IF k \in DOMAIN result /\ k \in DOMAIN sources
                 THEN LET l == sources[k].v IN
                      IF \E i \in 1..Len(l) : l[i] = "IP2Location"
                        THEN List(l)
                        ELSE List(Append(l, "IP2Location"))
                 ELSE Str("IP2Location")])

SourcesIp2Proxy(sources, proxy_data) ==
    Update(sources, [k \in DOMAIN proxy_data |-> Str("IP2Proxy")])

\* Mutant of Merged: the MaxMind update applied after the IP2Location one
MergedMaxmindLast(dbs, R, ip) ==
    Update(Update(_query_ip2location(dbs, R, ip), _query_maxmind(dbs, R)),
           _query_ip2proxy(dbs, R))

\* The merged dict before the final filtering
Merged(dbs, R, ip) ==
    Update(Update(_query_maxmind(dbs, R), _query_ip2location(dbs, R, ip)),
           _query_ip2proxy(dbs, R))

database_sources(dbs, R, ip) ==
    LET maxmind_data == _query_maxmind(dbs, R)
        ip2location_data == _query_ip2location(dbs, R, ip)
    IN  SourcesIp2Proxy(
            SourcesIp2Location(SourcesMaxmind(maxmind_data), maxmind_data,
                               ip2location_data),
            _query_ip2proxy(dbs, R))

\* Returns [none |-> TRUE] for Python None, else [none |-> FALSE, d |-> dict]
query(dbs, R, ip, full_data) ==
    LET result == Merged(dbs, R, ip) IN
    IF DOMAIN result = {} THEN [none |-> TRUE, d |-> EmptyDict]
    ELSE IF full_data
      THEN [none |-> FALSE,
            d |-> Update(result,
                         [_database_sources |-> database_sources(dbs, R, ip),
                          _databases_available |-> get_database_status(dbs)])]
      ELSE [none |-> FALSE, d |-> Restrict(result, essential_fields)]

(***************************************************************************)
(* Bounds of the model and constants of the program                        *)
(***************************************************************************)
MaxDbs == 2             \* databases of the catalog the refresh model follows
MaxCycles == 2          \* update_databases() calls in one behaviour
ServeCycles == 1        \* update_databases() calls in one behaviour of SpecServe
MaxFaults == 1          \* transient network faults in one behaviour
MaxBadSources == 1      \* databases for which the bucket serves no good file
MaxAdmins == 2          \* callers of the admin reload endpoint
MaxBatch == 3           \* comma-separated entries of one ips parameter

max_retries == 3
retry_delay == 5         \* seconds
min_file_size == 1000

\* The catalog, in the order the refresh model takes databases from it
DbOrder ==
    <<"maxmind_city", "ip2location_v4", "maxmind_isp", "ip2proxy",
      "maxmind_country", "maxmind_connection_type", "ip2location_v6">>

AVAILABLE_DATABASES ==
    {DbOrder[i] : i \in 1..(IF MaxDbs < Len(DbOrder) THEN MaxDbs ELSE Len(DbOrder))}

Cycles == 1..MaxCycles
Attempts == 1..max_retries
Admins == 1..MaxAdmins

(***************************************************************************)
(* Files.  A file is an inode: the refresh cycle whose download created    *)
(* it (0: present before any cycle), its body, and the cycles that hold    *)
(* it open for writing.  A file with writers is partially written.         *)
(***************************************************************************)
NoFile == [ver |-> -1, body |-> "absent", writers |-> {}]
InitialFile == [ver |-> 0, body |-> "good", writers |-> {}]

Exists(f) == f.body # "absent"

\* what a reader opening the path finds: a complete valid database or not
Complete(f) == Exists(f) /\ f.writers = {} /\ f.body # "partial"
Openable(f) == Complete(f) /\ f.body = "good"

\* open(temp_path, 'wb') by cycle c: creates the file or truncates the
\* file already at that path
OpenForWrite(f, c) ==
    [ver |-> c, body |-> "partial", writers |-> f.writers \cup {c}]

\* leaving `with open(...)`: cycle c has written body b and closes the file
CloseAfterWrite(f, c, b) ==
    IF c \in f.writers
      THEN [ver |-> c,
            body |-> IF f.writers = {c} THEN b ELSE "partial",
            writers |-> f.writers \ {c}]
      ELSE f

(***************************************************************************)
(* GeoIPReader: loading, closing and reloading the readers                 *)
(***************************************************************************)
\* a reader object built by load number gen on the file of cycle ver;
\* opened: its open succeeded
Handle(ver, gen, opened) ==
    [ver |-> ver, gen |-> gen, closed |-> FALSE, opened |-> opened]

\* self.databases[k] = IP2Location() (IP2Proxy()) is assigned before
\* .open(path) is called: when open raises, the object stays in the
\* dictionary.  A MaxMind Reader that fails to build is never assigned.
\* (IP2Proxy open is taken to fail by raising; its error-code return
\* deletes the key.)
AssignedBeforeOpen(k) == k \in {"ip2location_v4", "ip2location_v6", "ip2proxy"}

\* _load_databases: every catalog file that exists and opens gets a reader;
\* a file that fails to open is logged
\* Mutant of _load_databases: the IP2Location loader is not run
_load_databases_maxmind_only(dbs, fs, gen) ==
    Update(dbs,
           [k \in {d \in AVAILABLE_DATABASES :
                     Openable(fs[d]) /\ ~AssignedBeforeOpen(d)}
              |-> Handle(fs[k].ver, gen, TRUE)])

_load_databases(dbs, fs, gen) ==
    Update(dbs,
           [k \in {d \in AVAILABLE_DATABASES :
                      \/ Openable(fs[d])
                      \/ Exists(fs[d]) /\ AssignedBeforeOpen(d)} |->
                Handle(fs[k].ver, gen, Openable(fs[k]))])

\* for db in self.databases.values(): db.close()
CloseAll(dbs) == [k \in DOMAIN dbs |-> [dbs[k] EXCEPT !.closed = TRUE]]

\* Mutant of reload_databases: self.databases.clear() left out
reload_databases_no_clear(dbs, fs, gen) == _load_databases(CloseAll(dbs), fs, gen)

\* reload_databases: close every reader, clear the dictionary, load again
reload_databases(dbs, fs, gen) ==
    LET closed == CloseAll(dbs)
        cleared == Restrict(closed, {})
    IN  _load_databases(cleared, fs, gen)

(***************************************************************************)
(* Reader answers in the refresh model: a reader opened on the file of     *)
(* cycle v answers a covered address with values of that file.             *)
(***************************************************************************)
MaxMindValues == <<"X0", "X1", "X2", "X3", "X4", "X5">>
Ip2LocationValues == <<"Y0", "Y1", "Y2", "Y3", "Y4", "Y5">>

Covered(ip) == ip \in {"8.8.8.8", "2001:db8::1"}

AnswerOf(k, h, ip) ==
    CASE k = "maxmind_city" ->
            IF Covered(ip)
              THEN Rec([a \in Attributes(CityMap) |-> MaxMindValues[h.ver + 1]])
              ELSE Raise
      [] k = "maxmind_country" ->
            IF Covered(ip)
              THEN Rec([a \in Attributes(CountryMap) |-> MaxMindValues[h.ver + 1]])
              ELSE Raise
      [] k = "maxmind_isp" ->
            IF Covered(ip)
              THEN Rec([a \in Attributes(IspMap) |-> MaxMindValues[h.ver + 1]])
              ELSE Raise
      [] k = "maxmind_connection_type" ->
            IF Covered(ip)
              THEN Rec([a \in Attributes(ConnectionTypeMap) |-> MaxMindValues[h.ver + 1]])
              ELSE Raise
      [] k \in {"ip2location_v4", "ip2location_v6"} ->
            IF Covered(ip)
              THEN Rec([a \in Attributes(Ip2LocationMap) |-> Ip2LocationValues[h.ver + 1]])
              ELSE Rec([a \in Attributes(Ip2LocationMap) |-> "-"])
      [] k = "ip2proxy" ->
            IF Covered(ip)
              THEN Rec([is_proxy |-> 1, proxy_type |-> <<"VPN">>])
              ELSE Rec([is_proxy |-> 0, proxy_type |-> <<"-">>])

\* a closed reader, and one whose open failed, raise on every lookup
ReaderAnswers(dbs, ip) ==
    [k \in Kinds |->
        IF k \in DOMAIN dbs /\ ~dbs[k].closed /\ dbs[k].opened
          THEN AnswerOf(k, dbs[k], ip)
          ELSE Raise]

(***************************************************************************)
(* cache.py: the store behind a cache object.  An entry keeps, beside the  *)
(* cached value, the number of fully successful refresh cycles that had    *)
(* finished when it was stored (history, not read by the program).         *)
(***************************************************************************)
CacheTypes == {"memory", "redis", "sqlite", "none"}

\* Mutant of cache_key: the key is the address alone
cache_key_ip_only(ip, full_data) == <<ip, FALSE>>

\* f"{ip}:{full_data}"
cache_key(ip, full_data) == <<ip, full_data>>

\* cache.get returned a value
CacheHit(store, t, key) == t # "none" /\ key \in DOMAIN store

\* Mutant of CacheSet: only results with data are stored
CacheSetSkipsNotFound(store, t, key, value, stamp) ==
    IF t = "none" \/ value = [error |-> "Not found"] THEN store
    ELSE Update(store, [k \in {key} |-> [value |-> value, cached_in |-> stamp]])

\* cache.set
CacheSet(store, t, key, value, stamp) ==
    IF t = "none" THEN store
    ELSE Update(store, [k \in {key} |-> [value |-> value, cached_in |-> stamp]])

\* get_cache() in another module builds a new cache object: a MemoryCache
\* has its own empty dict, a Redis or SQLite cache reaches the same store.
\* clear_all() on that new object:
ClearedByNewObject(store, t) ==
    IF t \in {"redis", "sqlite"} THEN Restrict(store, {}) ELSE store

(***************************************************************************)
(* app.py query_ips                                                        *)
(***************************************************************************)
\* settings.query_rate_limit: a configured value
query_rate_limit == 2

\* ip.strip()
Strip(s) == IF s = " 10.0.0.1" THEN "10.0.0.1" ELSE s

\* ipaddress.ip_address(ip) does not raise
IsIp(ip) == ip \in {"8.8.8.8", "10.0.0.1", "2001:db8::1", "::1"}

\* [ip.strip() for ip in ips.split(',')][:settings.query_rate_limit]
ip_list(ips) ==
    [i \in 1..(IF Len(ips) < query_rate_limit THEN Len(ips) ELSE query_rate_limit)
        |-> Strip(ips[i])]

\* the readers one GeoIPReader.query call looks an address up in
Consulted(dbs, ip) ==
    {k \in DOMAIN dbs :
        \/ k \in {"maxmind_city", "maxmind_isp", "maxmind_connection_type", "ip2proxy"}
        \/ k = "maxmind_country" /\ "maxmind_city" \notin DOMAIN dbs
        \/ k = Ip2LocationDb(DOMAIN dbs, ip)}

InvalidIp == [error |-> "Invalid IP address"]
not_found == [error |-> "Not found"]

Truthy(data) == ~data.none /\ DOMAIN data.d # {}

NoResults == [k \in {} |-> EmptyDict]

\* the state of the loop over ip_list
LoopStart(store) ==
    [results |-> NoResults, cache |-> store, used |-> {}, hits |-> {},
     looked_up |-> {}]

\* the body of the loop for an entry that parses: the cache, then the readers
Lookup(acc, ip, full_data, dbs, t, stamp) ==
    IF CacheHit(acc.cache, t, cache_key(ip, full_data))
      THEN [acc EXCEPT
              !.results = Update(@, [k \in {ip} |->
                                        acc.cache[cache_key(ip, full_data)].value]),
              !.hits = @ \cup {acc.cache[cache_key(ip, full_data)]},
              !.looked_up = @ \cup {ip}]
    ELSE LET data == query(DOMAIN dbs, ReaderAnswers(dbs, ip), ip, full_data)
             value == IF Truthy(data) THEN data.d ELSE not_found
         IN  [acc EXCEPT
                !.results = Update(@, [k \in {ip} |-> value]),
                !.cache = CacheSet(@, t, cache_key(ip, full_data), value, stamp),
                !.used = @ \cup {dbs[k] : k \in Consulted(dbs, ip)},
                !.looked_up = @ \cup {ip}]

\* Mutant of Iteration: an entry that does not parse replaces the results
\* collected so far (results = {...} in place of results[ip] = ...)
IterationDropsSiblings(acc, ip, full_data, dbs, t, stamp) ==
    IF ~IsIp(ip)
      THEN [acc EXCEPT !.results = [k \in {ip} |-> InvalidIp]]
      ELSE Lookup(acc, ip, full_data, dbs, t, stamp)

\* one iteration of `for ip in ip_list`
Iteration(acc, ip, full_data, dbs, t, stamp) ==
    IF ~IsIp(ip)
      THEN [acc EXCEPT !.results = Update(@, [k \in {ip} |-> InvalidIp])]
      ELSE Lookup(acc, ip, full_data, dbs, t, stamp)

RECURSIVE Loop(_, _, _, _, _, _)
Loop(acc, ips, full_data, dbs, t, stamp) ==
    IF ips = <<>> THEN acc
    ELSE Loop(Iteration(acc, Head(ips), full_data, dbs, t, stamp), Tail(ips),
              full_data, dbs, t, stamp)

\* query_ips(ips, full_data) on the reader dictionary dbs and the store
query_ips(ips, full_data, dbs, store, t, stamp) ==
    Loop(LoopStart(store), ip_list(ips), full_data, dbs, t, stamp)

(***************************************************************************)
(* The refresh cycle: update_databases() and DatabaseUpdater               *)
(* (api-server/database_updater.py).  Files are named here by the reader   *)
(* kind that loads them.                                                   *)
(***************************************************************************)
\* What the bucket serves for a database during the behaviour:
\*   good     HTTP 200, a valid database of at least min_file_size bytes
\*   corrupt  HTTP 200, min_file_size bytes or more that no reader can open
\*   small    HTTP 200, fewer than min_file_size bytes
\*   missing  a status other than 200
Sources == {"good", "corrupt", "small", "missing"}

\* bytes received when the stream of a source ends
Downloaded(src) ==
    CASE src = "good" -> 5000
      [] src = "corrupt" -> 1000
      [] src = "small" -> 999

\* attempt: the value of the loop variable of download_database; slept: the
\* delays, in seconds, the task has waited in asyncio.sleep so far
NotStarted == [pc |-> "none", attempt |-> 1, slept |-> <<>>]
IdleCycle ==
    [pc |-> "idle", trigger |-> "none", validation |-> "none", clears |-> 0,
     before |-> [d \in AVAILABLE_DATABASES |-> NoFile],
     results |-> [d \in AVAILABLE_DATABASES |-> FALSE]]

Running(c) == cycle[c].pc = "downloading"

\* Mutant of AttemptFailed: the task retries as long as attempts fail
\* (while True in place of the for loop)
AttemptFailedRetryForever(st) ==
    [pc |-> "get",
     attempt |-> IF st.attempt < max_retries THEN st.attempt + 1 ELSE st.attempt,
     slept |-> st.slept]

\* Mutant of AttemptFailed: the same delay before every retry, and one more
\* after the last attempt
AttemptFailedFixedDelay(st) ==
    IF st.attempt < max_retries
      THEN [pc |-> "get", attempt |-> st.attempt + 1,
            slept |-> Append(st.slept, retry_delay)]
      ELSE [pc |-> "failed", attempt |-> st.attempt,
            slept |-> Append(st.slept, retry_delay)]

\* download_database: an attempt has returned (False, error_msg).  Before
\* the last attempt the task sleeps retry_delay * 2 ** (attempt - 1) seconds,
\* which changes nothing but the time, and is then at the next attempt;
\* after the last attempt it returns False at once.
AttemptFailed(st) ==
    IF st.attempt < max_retries
      THEN [pc |-> "get", attempt |-> st.attempt + 1,
            slept |-> Append(st.slept, retry_delay * 2 ^ (st.attempt - 1))]
      ELSE [pc |-> "failed", attempt |-> st.attempt, slept |-> st.slept]

\* temp_path.unlink()
Unlink(tmp, d, a) == [tmp EXCEPT ![d][a] = NoFile]

\* update_databases() is called: by the scheduler job (APScheduler runs at
\* most one instance of a job at a time), or awaited directly by
\* POST /admin/update-databases and POST /admin/scheduler/trigger.
\* update_all_databases creates one download_database task per database.
CycleStart(c, trigger) ==
    /\ cycle[c].pc = "idle"
    /\ \A b \in Cycles : b < c => cycle[b].pc # "idle"
    /\ trigger = "cron" => \A b \in Cycles : ~(Running(b) /\ cycle[b].trigger = "cron")
    /\ cycle' = [cycle EXCEPT ![c].pc = "downloading", ![c].trigger = trigger,
                              ![c].before = live]
    /\ dl' = [dl EXCEPT ![c] = [d \in AVAILABLE_DATABASES |-> [pc |-> "get", attempt |-> 1, slept |-> <<>>]]]
    /\ UNCHANGED <<live, temp, databases, loads, faults, remote, cache_type, cache,
                   reloads, lastq, hist, qin, qout, hub, cleaner, lock, cli>>

\* download_database_with_progress: the response is not 200
DownloadRejected(c, d) ==
    /\ Running(c)
    /\ dl[c][d].pc = "get"
    /\ remote[d] = "missing"
    /\ dl' = [dl EXCEPT ![c][d] = AttemptFailed(@)]
    /\ UNCHANGED <<live, temp, databases, loads, cycle, faults, remote, cache_type,
                   cache, reloads, lastq, hist, qin, qout, hub, cleaner, lock, cli>>

\* download_database_with_progress: the response is 200 and the temp file is
\* opened with open(temp_path, 'wb')
DownloadOpen(c, d) ==
    /\ Running(c)
    /\ dl[c][d].pc = "get"
    /\ remote[d] # "missing"
    /\ temp' = [temp EXCEPT ![d][dl[c][d].attempt] = OpenForWrite(@, c)]
    /\ dl' = [dl EXCEPT ![c][d].pc = "writing"]
    /\ UNCHANGED <<live, databases, loads, cycle, faults, remote, cache_type,
                   cache, reloads, lastq, hist, qin, qout, hub, cleaner, lock, cli>>

\* download_database_with_progress: session.get raises (timeout, client
\* error); the temp file at the attempt's path is removed if there is one
DownloadConnectFault(c, d) ==
    /\ Running(c)
    /\ dl[c][d].pc = "get"
    /\ faults < MaxFaults
    /\ faults' = faults + 1
    /\ temp' = Unlink(temp, d, dl[c][d].attempt)
    /\ dl' = [dl EXCEPT ![c][d] = AttemptFailed(@)]
    /\ UNCHANGED <<live, databases, loads, cycle, remote, cache_type,
                   cache, reloads, lastq, hist, qin, qout, hub, cleaner, lock, cli>>

\* the files after cycle c has closed the file it was writing for d with
\* body b: that file is still at the temp path, or another flow has moved
\* it to the live path, or it is unlinked
TempClosed(c, d, b) == [temp EXCEPT ![d][dl[c][d].attempt] = CloseAfterWrite(@, c, b)]
LiveClosed(c, d, b) == [live EXCEPT ![d] = CloseAfterWrite(@, c, b)]

\* if downloaded < self.min_file_size
TooSmall(downloaded) == downloaded < min_file_size

\* download_database_with_progress: the stream has ended
DownloadEnd(c, d) ==
    LET a == dl[c][d].attempt
        b == remote[d]
        t1 == TempClosed(c, d, b)
        l1 == LiveClosed(c, d, b)
    IN
    /\ Running(c)
    /\ dl[c][d].pc = "writing"
    /\ IF TooSmall(Downloaded(remote[d]))
         THEN \* too small: temp_path.unlink(), return False
              /\ temp' = Unlink(t1, d, a)
              /\ live' = l1
              /\ dl' = [dl EXCEPT ![c][d] = AttemptFailed(@)]
         ELSE IF Exists(t1[d][a])
         THEN \* temp_path.replace(local_path), return True
              /\ live' = [l1 EXCEPT ![d] = t1[d][a]]
              /\ temp' = Unlink(t1, d, a)
              /\ dl' = [dl EXCEPT ![c][d].pc = "ok"]
         ELSE \* replace raises FileNotFoundError: the attempt fails
              /\ temp' = t1
              /\ live' = l1
              /\ dl' = [dl EXCEPT ![c][d] = AttemptFailed(@)]
    /\ UNCHANGED <<databases, loads, cycle, faults, remote, cache_type,
                   cache, reloads, lastq, hist, qin, qout, hub, cleaner, lock, cli>>

\* download_database_with_progress: reading the stream raises (timeout,
\* connection reset); the file is closed as it is and the temp path removed
DownloadStreamFault(c, d) ==
    /\ Running(c)
    /\ dl[c][d].pc = "writing"
    /\ faults < MaxFaults
    /\ faults' = faults + 1
    /\ temp' = Unlink(TempClosed(c, d, "partial"), d, dl[c][d].attempt)
    /\ live' = LiveClosed(c, d, "partial")
    /\ dl' = [dl EXCEPT ![c][d] = AttemptFailed(@)]
    /\ UNCHANGED <<databases, loads, cycle, remote, cache_type,
                   cache, reloads, lastq, hist, qin, qout, hub, cleaner, lock, cli>>

\* what one reload_databases call did (history)
Available(dbs) == {k \in AVAILABLE_DATABASES : k \in DOMAIN dbs}

\* an open raised, or found no file, while the readers were loaded from fs
LoadFailed(fs) == \E d \in AVAILABLE_DATABASES : ~Openable(fs[d])

AfterReload(h, dbs, fs, full_success) ==
    [before |-> Available(dbs), failed |-> LoadFailed(fs),
     ok_cycles |-> IF full_success THEN h.ok_cycles + 1 ELSE h.ok_cycles]

\* validate_databases: the script opens every file under raw/ and probes it;
\* its verdict is logged and not used
validate_databases(fs) ==
    IF \A d \in AVAILABLE_DATABASES : Openable(fs[d]) THEN "passed" ELSE "failed"

\* cleanup_old_files: every *.tmp and *.tmp.* file under database_path
cleanup_old_files(tmp) == [d \in AVAILABLE_DATABASES |-> [a \in Attempts |-> NoFile]]

\* Mutant of Gathered: the first download task to end lets the cycle go on
\* (asyncio.wait with FIRST_COMPLETED in place of gather)
GatheredFirstCompleted(c) ==
    \E d \in AVAILABLE_DATABASES : dl[c][d].pc \in {"ok", "failed"}

\* Mutant of Gathered: the first download that fails ends the wait
\* (gather without return_exceptions, the failure raised)
GatheredUntilFailure(c) ==
    \/ \A d \in AVAILABLE_DATABASES : dl[c][d].pc \in {"ok", "failed"}
    \/ \E d \in AVAILABLE_DATABASES : dl[c][d].pc = "failed"

\* await asyncio.gather(*tasks): every download_database task of the cycle
\* has returned
Gathered(c) == \A d \in AVAILABLE_DATABASES : dl[c][d].pc \in {"ok", "failed"}

\* update_all_databases after gather() has returned, then the rest of
\* update_databases(): validation when every download succeeded, cleanup,
\* cache clear on a new cache object, reader reload.  Nothing in it suspends.
CycleFinish(c) ==
    LET results == [d \in AVAILABLE_DATABASES |-> dl[c][d].pc = "ok"]
        all_ok == \A d \in AVAILABLE_DATABASES : results[d]
        validation == IF all_ok THEN validate_databases(live) ELSE "skipped"
    IN
    /\ Running(c)
    /\ Gathered(c)
    /\ cycle' = [cycle EXCEPT ![c].pc = "done", ![c].results = results,
                              ![c].validation = validation,
                              ![c].clears = @ + 1]
    /\ temp' = cleanup_old_files(temp)
    /\ cache' = ClearedByNewObject(cache, cache_type)
    /\ databases' = reload_databases(databases, live, loads + 1)
    /\ loads' = loads + 1
    /\ hist' = AfterReload(hist, databases, live, validation = "passed")
    /\ UNCHANGED <<live, dl, faults, remote, cache_type, reloads, lastq, qin, qout, hub, cleaner, lock, cli>>

\* what the caller of update_databases() gets back when the cycle has ended
\* with the given results: the admin endpoints answer with a fixed message,
\* the scheduler drops the job's return value
CallerSees(trigger, results) ==
    IF trigger = "admin"
      THEN [status |-> 200, message |-> "Database update completed successfully"]
      ELSE [status |-> 0, message |-> "job executed"]

(***************************************************************************)
(* app.py: POST /admin/databases/reload                                    *)
(***************************************************************************)
NoReload == [pc |-> "idle", overlapped |-> {}, gen |-> 0]

\* the request of admin a is outstanding from here until ReloadServe(a)
ReloadRequest(a) ==
    /\ reloads[a].pc = "idle"
    /\ reloads' = [b \in Admins |->
                     IF b = a
                       THEN [reloads[a] EXCEPT
                               !.pc = "pending",
                               !.overlapped = {x \in Admins : reloads[x].pc = "pending"}]
                     ELSE IF reloads[b].pc = "pending"
                       THEN [reloads[b] EXCEPT !.overlapped = @ \cup {a}]
                     ELSE reloads[b]]
    /\ UNCHANGED <<live, temp, databases, loads, cycle, dl, faults, remote,
                   cache_type, cache, lastq, hist, qin, qout, hub, cleaner, lock, cli>>

\* reload_databases_endpoint: reader.reload_databases(), then the status of
\* the reader set it has just built
ReloadServe(a) ==
    /\ reloads[a].pc = "pending"
    /\ databases' = reload_databases(databases, live, loads + 1)
    /\ loads' = loads + 1
    /\ reloads' = [reloads EXCEPT ![a].pc = "done", ![a].gen = loads + 1]
    /\ hist' = AfterReload(hist, databases, live, FALSE)
    /\ UNCHANGED <<live, temp, cycle, dl, faults, remote, cache_type, cache,
                   lastq, qin, qout, hub, cleaner, lock, cli>>

(***************************************************************************)
(* app.py: GET /query                                                      *)
(***************************************************************************)
NoQuery ==
    [ips |-> <<>>, full_data |-> FALSE, pre |-> [k \in {} |-> EmptyDict], at |-> 0,
     results |-> NoResults, used |-> {}, hits |-> {}, looked_up |-> {}]

\* Mutant of ReaderConstructed: the handler also waits until no refresh
\* cycle is running and no reload request is outstanding
ReaderConstructedAndIdle ==
    /\ loads >= 1
    /\ \A c \in Cycles : ~Running(c)
    /\ \A a \in Admins : reloads[a].pc # "pending"

\* query_ips answers once lifespan has constructed the reader (otherwise
\* HTTP 503); it takes no lock and waits for no other handler
ReaderConstructed == loads >= 1

QueryIps(ips, full_data) ==
    LET acc == query_ips(ips, full_data, databases, cache, cache_type, hist.ok_cycles)
    IN
    /\ ReaderConstructed
    /\ cache' = acc.cache
    /\ lastq' = [ips |-> ips, full_data |-> full_data, pre |-> cache,
                 at |-> hist.ok_cycles,
                 results |-> acc.results, used |-> acc.used, hits |-> acc.hits,
                 looked_up |-> acc.looked_up]
    /\ UNCHANGED <<live, temp, databases, loads, cycle, dl, faults, remote,
                   cache_type, reloads, hist, qin, qout, hub, cleaner, lock, cli>>

(***************************************************************************)
(* Spec: the server after startup.  Every catalog file is in place, the    *)
(* GeoIPReader singleton has loaded them, the scheduler is running.        *)
(***************************************************************************)
\* no repository is being cleaned
NoHub == [tags |-> <<>>, present |-> {}, clock |-> 0]

NoCleaner ==
    [pc |-> "idle", i |-> 1, now |-> 0, dry_run |-> FALSE, issued |-> {},
     deleted |-> 0, protected |-> 0, kept |-> 0, failed |-> 0]

NotRun == [done |-> FALSE, res |-> [none |-> TRUE, d |-> EmptyDict]]

IdleQuery ==
    [dbs |-> {}, ip |-> "8.8.8.8", full_data |-> FALSE, R |-> [k \in Kinds |-> Raise]]

Started ==
    /\ live = [d \in AVAILABLE_DATABASES |-> InitialFile]
    /\ temp = [d \in AVAILABLE_DATABASES |-> [a \in Attempts |-> NoFile]]
    /\ databases = _load_databases(EmptyDict, live, 1)
    /\ loads = 1
    /\ cycle = [c \in Cycles |-> IdleCycle]
    /\ dl = [c \in Cycles |-> [d \in AVAILABLE_DATABASES |-> NotStarted]]
    /\ faults = 0
    /\ cache = [k \in {} |-> EmptyDict]
    /\ reloads = [a \in Admins |-> NoReload]
    /\ lastq = NoQuery
    /\ hist = [before |-> {}, failed |-> FALSE, ok_cycles |-> 0]

\* what the bucket may serve: at most MaxBadSources databases have a source
\* that is not good
RemoteStates ==
    {r \in [AVAILABLE_DATABASES -> Sources] :
        Cardinality({d \in AVAILABLE_DATABASES : r[d] # "good"}) <= MaxBadSources}

Init ==
    /\ Started
    /\ remote \in RemoteStates
    /\ cache_type = "memory"
    /\ qin = IdleQuery
    /\ qout = NotRun
    /\ hub = NoHub
    /\ cleaner = NoCleaner
    /\ lock = NoLock
    /\ cli = NoCli

Triggers == {"cron", "admin"}

\* the steps of the refresh cycles cs started by the triggers ts
Refresh(cs, ts) ==
    \/ \E c \in cs, trigger \in ts : CycleStart(c, trigger)
    \/ \E c \in cs, d \in AVAILABLE_DATABASES : DownloadRejected(c, d)
    \/ \E c \in cs, d \in AVAILABLE_DATABASES : DownloadOpen(c, d)
    \/ \E c \in cs, d \in AVAILABLE_DATABASES : DownloadConnectFault(c, d)
    \/ \E c \in cs, d \in AVAILABLE_DATABASES : DownloadEnd(c, d)
    \/ \E c \in cs, d \in AVAILABLE_DATABASES : DownloadStreamFault(c, d)
    \/ \E c \in cs : CycleFinish(c)

Next == Refresh(Cycles, Triggers)

\* Spec: refresh cycles triggered by the scheduler and by admin requests
Spec == Init /\ [][Next]_vars

(***************************************************************************)
(* SpecServe: one refresh cycle at a time, with the query endpoint and the *)
(* admin reload endpoint served in between its steps.                      *)
(***************************************************************************)
ServeInit ==
    /\ Started
    /\ remote \in RemoteStates
    /\ cache_type \in CacheTypes
    /\ qin = IdleQuery
    /\ qout = NotRun
    /\ hub = NoHub
    /\ cleaner = NoCleaner
    /\ lock = NoLock
    /\ cli = NoCli

ServeNext ==
    \/ Refresh(1..ServeCycles, Triggers)
    \/ \E a \in Admins : ReloadRequest(a)
    \/ \E a \in Admins : ReloadServe(a)
    \/ QueryIps(<<"8.8.8.8">>, FALSE)

SpecServe == ServeInit /\ [][ServeNext]_vars

(***************************************************************************)
(* SpecSwap: the scheduled refresh cycles, one after another, with the     *)
(* query endpoint served in between their steps.  The cache is off: every  *)
(* query reaches the readers.                                              *)
(***************************************************************************)
SwapInit ==
    /\ Started
    /\ remote \in RemoteStates
    /\ cache_type = "none"
    /\ qin = IdleQuery
    /\ qout = NotRun
    /\ hub = NoHub
    /\ cleaner = NoCleaner
    /\ lock = NoLock
    /\ cli = NoCli

SwapNext ==
    \/ Refresh(1..ServeCycles, {"cron"})
    \/ QueryIps(<<"8.8.8.8">>, FALSE)

SpecSwap == SwapInit /\ [][SwapNext]_vars

(***************************************************************************)
(* SpecSwapFair: SpecSwap with the scheduling of the event loop.  A        *)
(* download task whose network attempt is outstanding gets an answer, an   *)
(* error or a timeout (download_timeout, connection_timeout), and a        *)
(* coroutine that can run is run.  Nothing obliges a cycle to start or a   *)
(* client to send a query.                                                 *)
(***************************************************************************)
\* the steps of the download_database task of cycle c for database d
DownloadStep(c, d) ==
    \/ DownloadRejected(c, d)
    \/ DownloadOpen(c, d)
    \/ DownloadConnectFault(c, d)
    \/ DownloadEnd(c, d)
    \/ DownloadStreamFault(c, d)

EventLoopFairness ==
    /\ \A c \in Cycles, d \in AVAILABLE_DATABASES : WF_vars(DownloadStep(c, d))
    /\ \A c \in Cycles : WF_vars(CycleFinish(c))

SpecSwapFair == SwapInit /\ [][SwapNext]_vars /\ EventLoopFairness

(***************************************************************************)
(* SpecRepeat: GET /query with one address per request, one request after  *)
(* another, on the readers GeoIPReader() loaded at startup.  The startup   *)
(* download may have failed for any of the files.                          *)
(***************************************************************************)
RepeatIps == {"8.8.8.8", "10.0.0.1", "2001:db8::1", "bad"}

\* the files under raw/ when GeoIPReader() is constructed
StartFiles == [AVAILABLE_DATABASES -> {InitialFile, NoFile}]

StartedOn(fs) ==
    /\ live = fs
    /\ temp = [d \in AVAILABLE_DATABASES |-> [a \in Attempts |-> NoFile]]
    /\ databases = _load_databases(EmptyDict, fs, 1)
    /\ loads = 1
    /\ cycle = [c \in Cycles |-> IdleCycle]
    /\ dl = [c \in Cycles |-> [d \in AVAILABLE_DATABASES |-> NotStarted]]
    /\ faults = 0
    /\ cache = [k \in {} |-> EmptyDict]
    /\ reloads = [a \in Admins |-> NoReload]
    /\ lastq = NoQuery
    /\ hist = [before |-> {}, failed |-> FALSE, ok_cycles |-> 0]

RepeatInit ==
    /\ \E fs \in StartFiles : StartedOn(fs)
    /\ remote = [d \in AVAILABLE_DATABASES |-> "good"]
    /\ cache_type \in CacheTypes
    /\ qin = IdleQuery
    /\ qout = NotRun
    /\ hub = NoHub
    /\ cleaner = NoCleaner
    /\ lock = NoLock
    /\ cli = NoCli

RepeatNext == \E ip \in RepeatIps, full_data \in BOOLEAN : QueryIps(<<ip>>, full_data)

SpecRepeat == RepeatInit /\ [][RepeatNext]_vars

(***************************************************************************)
(* SpecBatch: GET /query with batches of entries, one request after        *)
(* another, on the readers loaded at startup.                              *)
(***************************************************************************)
Entries == {"8.8.8.8", " 10.0.0.1", "bad"}

\* ips.split(',') of a non-empty parameter
Batches == UNION {[1..n -> Entries] : n \in 1..MaxBatch}

BatchInit ==
    /\ Started
    /\ remote = [d \in AVAILABLE_DATABASES |-> "good"]
    /\ cache_type \in {"memory", "none"}
    /\ qin = IdleQuery
    /\ qout = NotRun
    /\ hub = NoHub
    /\ cleaner = NoCleaner
    /\ lock = NoLock
    /\ cli = NoCli

BatchNext == \E ips \in Batches, full_data \in BOOLEAN : QueryIps(ips, full_data)

SpecBatch == BatchInit /\ [][BatchNext]_vars

(***************************************************************************)
(* SpecErrors: GET /query where GeoIPReader.query may raise for some of    *)
(* the addresses (except Exception in query_ips), one request after        *)
(* another.                                                                *)
(***************************************************************************)
QueryFailed == [error |-> "Query failed"]

\* Mutant of IterationOrRaise: the handler stores the error it answers
IterationOrRaiseCached(acc, ip, full_data, dbs, t, stamp, raising) ==
    IF IsIp(ip) /\ ip \in raising /\ ~CacheHit(acc.cache, t, cache_key(ip, full_data))
      THEN [acc EXCEPT
              !.results = Update(@, [k \in {ip} |-> QueryFailed]),
              !.cache = CacheSet(@, t, cache_key(ip, full_data), QueryFailed, stamp),
              !.looked_up = @ \cup {ip}]
      ELSE Iteration(acc, ip, full_data, dbs, t, stamp)

\* one iteration of `for ip in ip_list` when geoip_reader.query raises for
\* the addresses in raising: the cache is read first, and the except branch
\* only sets results[ip]
IterationOrRaise(acc, ip, full_data, dbs, t, stamp, raising) ==
    IF IsIp(ip) /\ ip \in raising /\ ~CacheHit(acc.cache, t, cache_key(ip, full_data))
      THEN [acc EXCEPT
              !.results = Update(@, [k \in {ip} |-> QueryFailed]),
              !.looked_up = @ \cup {ip}]
      ELSE Iteration(acc, ip, full_data, dbs, t, stamp)

RECURSIVE LoopOrRaise(_, _, _, _, _, _, _)
LoopOrRaise(acc, ips, full_data, dbs, t, stamp, raising) ==
    IF ips = <<>> THEN acc
    ELSE LoopOrRaise(IterationOrRaise(acc, Head(ips), full_data, dbs, t, stamp, raising),
                     Tail(ips), full_data, dbs, t, stamp, raising)

QueryIpsOrRaise(ips, full_data, raising) ==
    LET acc == LoopOrRaise(LoopStart(cache), ip_list(ips), full_data, databases,
                           cache_type, hist.ok_cycles, raising)
    IN
    /\ ReaderConstructed
    /\ cache' = acc.cache
    /\ lastq' = [ips |-> ips, full_data |-> full_data, pre |-> cache,
                 at |-> hist.ok_cycles,
                 results |-> acc.results, used |-> acc.used, hits |-> acc.hits,
                 looked_up |-> acc.looked_up]
    /\ UNCHANGED <<live, temp, databases, loads, cycle, dl, faults, remote,
                   cache_type, reloads, hist, qin, qout, hub, cleaner, lock, cli>>

ErrorIps == {"8.8.8.8"}

\* requests of one or two entries
ErrorBatches == {ips \in Batches : Len(ips) <= 2}

ErrorsNext ==
    \E ips \in ErrorBatches, full_data \in BOOLEAN, raising \in SUBSET ErrorIps :
        QueryIpsOrRaise(ips, full_data, raising)

SpecErrors == BatchInit /\ [][ErrorsNext]_vars

(***************************************************************************)
(* SpecQuery: one call of GeoIPReader.query on every combination of        *)
(* loaded readers and reader answers drawn from the profiles below.        *)
(***************************************************************************)
CityAnswers ==
    {Raise,
     Rec([a \in Attributes(CityMap) |-> "X"]),
     Rec([a \in Attributes(CityMap) |->
            IF a \in {"country.name", "country.iso_code"} THEN "X" ELSE None])}

CountryAnswers == {Raise, Rec([a \in Attributes(CountryMap) |-> "XC"])}

IspAnswers ==
    {Raise,
     Rec([a \in Attributes(IspMap) |-> "XI"]),
     Rec([a \in Attributes(IspMap) |-> IF a = "isp" THEN "XI" ELSE None])}

ConnectionTypeAnswers == {Raise, Rec([a \in Attributes(ConnectionTypeMap) |-> "XT"])}

\* answers of an IP2Location reader; v is the value its database holds
Ip2LocationAnswers(v) ==
    {Raise, NoRecord,
     Rec([a \in Attributes(Ip2LocationMap) |-> v]),
     Rec([a \in Attributes(Ip2LocationMap) |->
            IF a \in {"city", "isp"} THEN "-"
            ELSE IF a = "domain" THEN None ELSE v]),
     Rec([a \in Attributes(Ip2LocationMap) |-> "-"])}

ProxyTypes == {<<"-">>, <<"VPN">>, <<"TOR">>, <<"VPN", "DCH">>, <<"PUB">>}

Ip2ProxyAnswers ==
    {Raise, NoRecord, Rec([is_proxy |-> 1])}
    \cup {Rec([is_proxy |-> n, proxy_type |-> t]) : n \in {-1, 0, 1}, t \in ProxyTypes}

Answers(k) ==
    CASE k = "maxmind_city" -> CityAnswers
      [] k = "maxmind_country" -> CountryAnswers
      [] k = "maxmind_isp" -> IspAnswers
      [] k = "maxmind_connection_type" -> ConnectionTypeAnswers
      [] k = "ip2location_v4" -> Ip2LocationAnswers("Y4")
      [] k = "ip2location_v6" -> Ip2LocationAnswers("Y6")
      [] k = "ip2proxy" -> Ip2ProxyAnswers

QueryIPs == {"8.8.8.8", "2001:db8::1"}

\* a reader that is not loaded is never asked: its answer is fixed
AnswersIn(k, dbs) == IF k \in dbs THEN Answers(k) ELSE {Raise}

QueryInputs ==
    UNION {[dbs : {dbs}, ip : QueryIPs, full_data : BOOLEAN,
            R : [maxmind_city : AnswersIn("maxmind_city", dbs),
                 maxmind_country : AnswersIn("maxmind_country", dbs),
                 maxmind_isp : AnswersIn("maxmind_isp", dbs),
                 maxmind_connection_type : AnswersIn("maxmind_connection_type", dbs),
                 ip2location_v4 : AnswersIn("ip2location_v4", dbs),
                 ip2location_v6 : AnswersIn("ip2location_v6", dbs),
                 ip2proxy : AnswersIn("ip2proxy", dbs)]]
           : dbs \in SUBSET Kinds}

QueryInit ==
    /\ Started
    /\ remote = [d \in AVAILABLE_DATABASES |-> "good"]
    /\ cache_type = "memory"
    /\ qin \in QueryInputs
    /\ qout = NotRun
    /\ hub = NoHub
    /\ cleaner = NoCleaner
    /\ lock = NoLock
    /\ cli = NoCli

RunQuery ==
    /\ ~qout.done
    /\ qout' = [done |-> TRUE,
                res |-> query(qin.dbs, qin.R, qin.ip, qin.full_data)]
    /\ UNCHANGED <<qin, hub, cleaner, lock, cli, lifecycle_vars>>

QueryNext == RunQuery

SpecQuery == QueryInit /\ [][QueryNext]_vars

(***************************************************************************)
(* SpecDockerApi: the refresh cycle with the DatabaseUpdater of            *)
(* infrastructure/docker-api/database_updater.py, the copy that lies next  *)
(* to app.py.  update_all_databases awaits the download_database           *)
(* coroutines one after another; a download is one attempt, reads the      *)
(* whole body, writes it to <file>.tmp and replaces the live file, with    *)
(* no await between the write and the replace.  update_databases is the    *)
(* same as in api-server/database_updater.py.                              *)
(***************************************************************************)
IndexOf(d) == CHOOSE i \in 1..Len(DbOrder) : DbOrder[i] = d

\* for db_name, task in tasks: results[db_name] = await task
Awaited(c, d) ==
    /\ Running(c)
    /\ \A e \in AVAILABLE_DATABASES :
          IndexOf(e) < IndexOf(d) => dl[c][e].pc \in {"ok", "failed"}

\* download_database: response.status is not 200, return False
SimpleRejected(c, d) ==
    /\ Awaited(c, d)
    /\ dl[c][d].pc = "get"
    /\ remote[d] = "missing"
    /\ dl' = [dl EXCEPT ![c][d].pc = "failed"]
    /\ UNCHANGED <<live, temp, databases, loads, cycle, faults, remote, cache_type,
                   cache, reloads, lastq, hist, qin, qout, hub, cleaner, lock, cli>>

\* download_database: response.status is 200, await response.read()
SimpleResponse(c, d) ==
    /\ Awaited(c, d)
    /\ dl[c][d].pc = "get"
    /\ remote[d] # "missing"
    /\ dl' = [dl EXCEPT ![c][d].pc = "reading"]
    /\ UNCHANGED <<live, temp, databases, loads, cycle, faults, remote, cache_type,
                   cache, reloads, lastq, hist, qin, qout, hub, cleaner, lock, cli>>

\* download_database: the body is read, whatever its length: it is written
\* to the temp file, which replaces the live file; return True
SimpleStore(c, d) ==
    /\ Awaited(c, d)
    /\ dl[c][d].pc = "reading"
    /\ live' = [live EXCEPT ![d] = [ver |-> c, body |-> remote[d], writers |-> {}]]
    /\ dl' = [dl EXCEPT ![c][d].pc = "ok"]
    /\ UNCHANGED <<temp, databases, loads, cycle, faults, remote, cache_type,
                   cache, reloads, lastq, hist, qin, qout, hub, cleaner, lock, cli>>

\* download_database: session.get or response.read raises; no temp file has
\* been created; return False
SimpleFault(c, d) ==
    /\ Awaited(c, d)
    /\ dl[c][d].pc \in {"get", "reading"}
    /\ faults < MaxFaults
    /\ faults' = faults + 1
    /\ dl' = [dl EXCEPT ![c][d].pc = "failed"]
    /\ UNCHANGED <<live, temp, databases, loads, cycle, remote, cache_type,
                   cache, reloads, lastq, hist, qin, qout, hub, cleaner, lock, cli>>

DockerApiNext ==
    \/ \E c \in Cycles, trigger \in Triggers : CycleStart(c, trigger)
    \/ \E c \in Cycles, d \in AVAILABLE_DATABASES : SimpleRejected(c, d)
    \/ \E c \in Cycles, d \in AVAILABLE_DATABASES : SimpleResponse(c, d)
    \/ \E c \in Cycles, d \in AVAILABLE_DATABASES : SimpleStore(c, d)
    \/ \E c \in Cycles, d \in AVAILABLE_DATABASES : SimpleFault(c, d)
    \/ \E c \in Cycles : CycleFinish(c)

SpecDockerApi == Init /\ [][DockerApiNext]_vars

(***************************************************************************)
(* .github/scripts/dockerhub-cleanup.py: DockerHubCleaner                  *)
(* A tag name is the sequence of its characters, a time is a number of     *)
(* clock ticks, TicksPerSecond of them in a second.                        *)
(***************************************************************************)
MaxTags == 2            \* tags of the repository
MaxDigests == 2         \* image manifests the tags point to
TicksPerSecond == 2     \* resolution of the clock below one second

SecondsPerDay == 86400
pr_retention_days == 30
sha_retention_days == 14
no_date_age_days == 365

Days(n) == n * SecondsPerDay * TicksPerSecond

Digits == {"0", "1", "2", "3", "4", "5", "6", "7", "8", "9"}
HexDigits == Digits \cup {"a", "b", "c", "d", "e", "f"}

StartsWith(s, prefix) == Len(s) >= Len(prefix) /\ SubSeq(s, 1, Len(prefix)) = prefix
After(s, n) == SubSeq(s, n + 1, Len(s))
AllIn(s, chars) == \A i \in 1..Len(s) : s[i] \in chars

\* \d+(\.\d+){n-1}
DigitGroups(s, n) ==
    /\ Len(s) >= 1
    /\ AllIn(s, Digits \cup {"."})
    /\ Cardinality({i \in 1..Len(s) : s[i] = "."}) = n - 1
    /\ s[1] # "."
    /\ s[Len(s)] # "."
    /\ \A i \in 1..(Len(s) - 1) : ~(s[i] = "." /\ s[i + 1] = ".")

Branches ==
    {<<"m", "a", "i", "n">>, <<"m", "a", "s", "t", "e", "r">>,
     <<"d", "e", "v", "e", "l", "o", "p">>}

\* ^pr-\d+$
pr_pattern(name) ==
    /\ StartsWith(name, <<"p", "r", "-">>)
    /\ Len(name) >= 4
    /\ AllIn(After(name, 3), Digits)

\* ^(main|master|develop)-[a-f0-9]{7,}$
sha_pattern(name) ==
    \E b \in Branches :
        /\ StartsWith(name, b \o <<"-">>)
        /\ Len(name) - (Len(b) + 1) >= 7
        /\ AllIn(After(name, Len(b) + 1), HexDigits)

\* ^(latest|main|master|develop|\d+\.\d+\.\d+|v\d+\.\d+\.\d+|\d+\.\d+|\d+)$
protected_pattern(name) ==
    \/ name \in Branches \cup {<<"l", "a", "t", "e", "s", "t">>}
    \/ DigitGroups(name, 3)
    \/ StartsWith(name, <<"v">>) /\ DigitGroups(After(name, 1), 3)
    \/ DigitGroups(name, 2)
    \/ DigitGroups(name, 1)

\* datetime.strptime(last_updated_str[:19], "%Y-%m-%dT%H:%M:%S"): the
\* fraction of the second is cut off
Truncate(t) == t - (t % TicksPerSecond)

Updated(t) == [k |-> "time", t |-> t]
NoDate == [k |-> "none", t |-> 0]
BadDate == [k |-> "bad", t |-> 0]

\* last_updated as cleanup_repository computes it
last_updated(tag, now) ==
    IF tag.updated.k = "time" THEN Truncate(tag.updated.t)
    ELSE now - Days(no_date_age_days)

pr_cutoff(now) == now - Days(pr_retention_days)
sha_cutoff(now) == now - Days(sha_retention_days)

\* what the loop body of cleanup_repository does with one tag
Decision(tag, now) ==
    IF tag.updated.k = "bad" THEN "skipped"
    ELSE IF protected_pattern(tag.name) THEN "protected"
    ELSE IF pr_pattern(tag.name)
      THEN IF last_updated(tag, now) < pr_cutoff(now) THEN "delete" ELSE "recent"
    ELSE IF sha_pattern(tag.name)
      THEN IF last_updated(tag, now) < sha_cutoff(now) THEN "delete" ELSE "recent"
    ELSE "unknown"

\* the loop moves to the next tag, or ends after the last one
NextTag(c) ==
    [c EXCEPT !.i = @ + 1,
              !.pc = IF c.i = Len(hub.tags) THEN "done" ELSE "loop"]

InLoop == cleaner.pc = "loop" /\ cleaner.i <= Len(hub.tags)

CleanupUnchanged ==
    UNCHANGED <<qin, qout, lock, cli, lifecycle_vars>>

\* get_tags, then now = datetime.now(timezone.utc)
GetTags ==
    /\ cleaner.pc = "start"
    /\ cleaner' = [cleaner EXCEPT !.pc = IF Len(hub.tags) = 0 THEN "done" ELSE "loop",
                                  !.now = hub.clock]
    /\ UNCHANGED hub
    /\ CleanupUnchanged

\* the tag is skipped, protected, recent or of unknown format
StepKeep ==
    /\ InLoop
    /\ LET d == Decision(hub.tags[cleaner.i], cleaner.now)
       IN  /\ d # "delete"
           /\ cleaner' = [NextTag(cleaner) EXCEPT
                            !.protected = IF d = "protected" THEN @ + 1 ELSE @,
                            !.kept = IF d = "protected" THEN @ ELSE @ + 1]
    /\ UNCHANGED hub
    /\ CleanupUnchanged

\* delete_tag with dry_run: nothing is sent, True is returned
StepDryRun ==
    /\ InLoop
    /\ Decision(hub.tags[cleaner.i], cleaner.now) = "delete"
    /\ cleaner.dry_run
    /\ cleaner' = [NextTag(cleaner) EXCEPT !.deleted = @ + 1]
    /\ UNCHANGED hub
    /\ CleanupUnchanged

\* delete_tag: the registry returns the digest of the tag's manifest and
\* accepts DELETE manifests/<digest>; the manifest is gone, and with it
\* every tag that points to it
StepDeleteRegistry ==
    /\ InLoop
    /\ Decision(hub.tags[cleaner.i], cleaner.now) = "delete"
    /\ ~cleaner.dry_run
    /\ cleaner.i \in hub.present
    /\ hub' = [hub EXCEPT !.present =
                  {j \in @ : hub.tags[j].digest # hub.tags[cleaner.i].digest}]
    /\ cleaner' = [NextTag(cleaner) EXCEPT !.deleted = @ + 1,
                                           !.issued = @ \cup {cleaner.i}]
    /\ CleanupUnchanged

\* delete_tag: the registry request fails, the Hub API accepts
\* DELETE tags/<tag>
StepDeleteHub ==
    /\ InLoop
    /\ Decision(hub.tags[cleaner.i], cleaner.now) = "delete"
    /\ ~cleaner.dry_run
    /\ cleaner.i \in hub.present
    /\ hub' = [hub EXCEPT !.present = @ \ {cleaner.i}]
    /\ cleaner' = [NextTag(cleaner) EXCEPT !.deleted = @ + 1,
                                           !.issued = @ \cup {cleaner.i}]
    /\ CleanupUnchanged

\* delete_tag: both requests fail (always so for a tag that is gone)
StepDeleteFailed ==
    /\ InLoop
    /\ Decision(hub.tags[cleaner.i], cleaner.now) = "delete"
    /\ ~cleaner.dry_run
    /\ cleaner' = [NextTag(cleaner) EXCEPT !.failed = @ + 1,
                                           !.issued = @ \cup {cleaner.i}]
    /\ UNCHANGED hub
    /\ CleanupUnchanged

(***************************************************************************)
(* SpecCleanup: one cleanup_repository call on every repository of up to   *)
(* MaxTags tags drawn from the names and dates below.                      *)
(***************************************************************************)
TagNames ==
    {<<"p", "r", "-", "1", "2">>,
     <<"m", "a", "i", "n", "-", "a", "b", "c", "1", "2", "3", "f">>,
     <<"l", "a", "t", "e", "s", "t">>,
     <<"1", ".", "0">>,
     <<"v", "1">>,
     <<"m", "a", "i", "n", "-", "1", "2", "3", "4", "5">>}

\* the clock when the script runs: on a whole second, or one tick after it
CleanupClock == {Days(400), Days(400) + 1}

\* dates a tag may carry: around each retention period before now
UpdatedAt(now) ==
    {Updated(now - Days(d) + e) : d \in {pr_retention_days, sha_retention_days},
                                  e \in {-1, 0, 1}}
    \cup {NoDate, BadDate}

TagsAt(now) == [name : TagNames, updated : UpdatedAt(now), digest : 1..MaxDigests]

\* tag listings: no two tags of a repository have the same name
TagLists(now) ==
    UNION {{l \in [1..n -> TagsAt(now)] :
              \A i, j \in 1..n : i # j => l[i].name # l[j].name}
           : n \in 0..MaxTags}

CleanupInit ==
    /\ Started
    /\ remote = [d \in AVAILABLE_DATABASES |-> "good"]
    /\ cache_type = "memory"
    /\ qin = IdleQuery
    /\ qout = NotRun
    /\ \E now \in CleanupClock : \E tags \in TagLists(now) :
          hub = [tags |-> tags, present |-> 1..Len(tags), clock |-> now]
    /\ \E dry_run \in BOOLEAN :
          cleaner = [NoCleaner EXCEPT !.pc = "start", !.dry_run = dry_run]
    /\ lock = NoLock
    /\ cli = NoCli

CleanupNext ==
    \/ GetTags
    \/ StepKeep
    \/ StepDryRun
    \/ StepDeleteRegistry
    \/ StepDeleteHub
    \/ StepDeleteFailed

SpecCleanup == CleanupInit /\ [][CleanupNext]_vars

(***************************************************************************)
(* cli/python/geoip-update.py: LockFile.  Several geoip-update processes   *)
(* use the one path LOCK_FILE; each step below is one system call of       *)
(* acquire or release, so the calls of different processes interleave.     *)
(***************************************************************************)
MaxProcs == 2

\* process ids of the geoip-update processes started together
Procs == 1..MaxProcs

\* pid of an earlier run that died without releasing
CrashedPid == MaxProcs + 1

\* files that can be at LOCK_FILE: 0 is the one found at startup, p the one
\* that open(self.path, 'w') of process p creates
Inodes == 0..MaxProcs

\* LockFile.__init__, before acquire
NewProc == [pc |-> "start", pid |-> 0, fd |-> {}, locked |-> FALSE]

\* f.read().strip() of a lock file: <<>> is text that int() rejects
LockTexts == {<<>>, <<CrashedPid>>}

\* os.kill(pid, 0) succeeds for a process that exists
_is_process_running(pid) ==
    /\ pid \in Procs
    /\ lock.proc[pid].pc # "exited"

\* no other process holds an flock on the file
Unlocked(p, i) == lock.holder[i] \in {0, p}

LockUnchanged == UNCHANGED <<cli, server_vars>>

\* if self.path.exists()
AcquireExists(p) ==
    /\ lock.proc[p].pc = "start"
    /\ lock' = [lock EXCEPT !.proc[p].pc =
                   IF lock.path # {} THEN "open_r" ELSE "open_w"]
    /\ LockUnchanged

\* with open(self.path, 'r') as f; a missing file raises IOError: pass
AcquireOpenRead(p) ==
    /\ lock.proc[p].pc = "open_r"
    /\ lock' = IF lock.path = {}
                 THEN [lock EXCEPT !.proc[p].pc = "open_w"]
                 ELSE [lock EXCEPT !.proc[p].pc = "read", !.proc[p].fd = lock.path]
    /\ LockUnchanged

\* pid = int(f.read().strip()); ValueError: pass
AcquireRead(p) ==
    /\ lock.proc[p].pc = "read"
    /\ \E i \in lock.proc[p].fd :
          lock' = IF lock.content[i] = <<>>
                    THEN [lock EXCEPT !.proc[p].pc = "open_w", !.proc[p].fd = {}]
                    ELSE [lock EXCEPT !.proc[p].pc = "check", !.proc[p].fd = {},
                                      !.proc[p].pid = lock.content[i][1]]
    /\ LockUnchanged

\* if self._is_process_running(pid): return False
AcquireCheck(p) ==
    /\ lock.proc[p].pc = "check"
    /\ lock' = [lock EXCEPT !.proc[p].pc =
                   IF _is_process_running(lock.proc[p].pid) THEN "refused" ELSE "unlink"]
    /\ LockUnchanged

\* self.path.unlink(); FileNotFoundError is an IOError: pass
AcquireUnlink(p) ==
    /\ lock.proc[p].pc = "unlink"
    /\ lock' = [lock EXCEPT !.path = {}, !.proc[p].pc = "open_w"]
    /\ LockUnchanged

\* self.fd = open(self.path, 'w'): creates the file or truncates the one there
AcquireOpenWrite(p) ==
    /\ lock.proc[p].pc = "open_w"
    /\ LET i == IF lock.path = {} THEN p ELSE CHOOSE j \in lock.path : TRUE
       IN  lock' = [lock EXCEPT !.path = {i}, !.content[i] = <<>>,
                                !.proc[p].fd = {i}, !.proc[p].pc = "flock"]
    /\ LockUnchanged

\* fcntl.flock(self.fd.fileno(), LOCK_EX | LOCK_NB); on OSError close, return False
AcquireFlock(p) ==
    /\ lock.proc[p].pc = "flock"
    /\ \E i \in lock.proc[p].fd :
          lock' = IF Unlocked(p, i)
                    THEN [lock EXCEPT !.holder[i] = p, !.proc[p].pc = "write"]
                    ELSE [lock EXCEPT !.proc[p].fd = {}, !.proc[p].pc = "refused"]
    /\ LockUnchanged

\* self.fd.write(str(os.getpid())); flush; self.locked = True; return True
AcquireWrite(p) ==
    /\ lock.proc[p].pc = "write"
    /\ \E i \in lock.proc[p].fd :
          lock' = [lock EXCEPT !.content[i] = <<p>>, !.proc[p].locked = TRUE,
                               !.proc[p].pc = "held"]
    /\ LockUnchanged

\* release: fcntl.flock(LOCK_UN); self.fd.close()
ReleaseUnlock(p) ==
    /\ lock.proc[p].pc = "held"
    /\ \E i \in lock.proc[p].fd :
          lock' = [lock EXCEPT !.holder[i] = 0, !.proc[p].fd = {},
                               !.proc[p].pc = "release_unlink"]
    /\ LockUnchanged

\* release: if self.path.exists(): self.path.unlink(); finally locked = False;
\* the process then leaves main
ReleaseUnlink(p) ==
    /\ lock.proc[p].pc = "release_unlink"
    /\ lock' = [lock EXCEPT !.path = {}, !.proc[p].locked = FALSE,
                            !.proc[p].pc = "exited"]
    /\ LockUnchanged

\* __enter__: if not self.acquire(): sys.exit(1)
ExitRefused(p) ==
    /\ lock.proc[p].pc = "refused"
    /\ lock' = [lock EXCEPT !.proc[p].pc = "exited"]
    /\ LockUnchanged

LockInit ==
    /\ Started
    /\ remote = [d \in AVAILABLE_DATABASES |-> "good"]
    /\ cache_type = "memory"
    /\ qin = IdleQuery
    /\ qout = NotRun
    /\ hub = NoHub
    /\ cleaner = NoCleaner
    /\ cli = NoCli
    /\ \E path \in {{}, {0}} : \E text \in LockTexts :
          lock = [path    |-> path,
                  content |-> [i \in Inodes |-> IF i = 0 /\ path # {} THEN text ELSE <<>>],
                  holder  |-> [i \in Inodes |-> 0],
                  proc    |-> [p \in Procs |-> NewProc]]

LockNext ==
    \E p \in Procs :
        \/ AcquireExists(p)
        \/ AcquireOpenRead(p)
        \/ AcquireRead(p)
        \/ AcquireCheck(p)
        \/ AcquireUnlink(p)
        \/ AcquireOpenWrite(p)
        \/ AcquireFlock(p)
        \/ AcquireWrite(p)
        \/ ReleaseUnlock(p)
        \/ ReleaseUnlink(p)
        \/ ExitRefused(p)

SpecLock == LockInit /\ [][LockNext]_vars

(***************************************************************************)
(* cli/python/geoip-update.py: GeoIPUpdater.  One update_databases call;   *)
(* its download_database tasks run on one event loop, so the code between  *)
(* two awaits of a task is one step.                                       *)
(***************************************************************************)
DEFAULT_RETRIES == 3

\* names returned by authenticate(), one of each file type
CliDatabases == {"GeoIP2-City.mmdb", "IP2PROXY-IP-PROXYTYPE-COUNTRY.BIN"}

\* what a file holds: "absent" is no file, "old" the database of an earlier
\* run, "new" a complete good download, "invalid" a complete body that is not
\* a database, "partial" a file whose writing stopped midway
CliBodies == {"empty", "invalid", "new"}

\* validate_database_file: False for a missing or empty file and for one
\* the type checks reject
validate_database_file(file) ==
    IF file \in {"absent", "empty"} THEN FALSE
    ELSE file \notin {"invalid", "partial"}

NewTask == [pc |-> "none", attempt |-> 0, slept |-> <<>>]

\* delay = min(2 ** attempt, 60)
CliDelay(attempt) ==
    IF 2 ^ attempt < 60 THEN 2 ^ attempt ELSE 60

\* the end of one pass of 'for attempt in range(self.config.max_retries)'
\* that did not return: sleep and go on, or record the failure after the
\* last pass
CliAttemptOver(c, n) ==
    IF c.task[n].attempt < DEFAULT_RETRIES - 1
      THEN [c EXCEPT !.task[n].pc = "sleep",
                     !.task[n].slept = Append(@, CliDelay(c.task[n].attempt))]
      ELSE [c EXCEPT !.task[n].pc = "failed",
                     !.failed_files = @ \cup {n}]

CliUnchanged == UNCHANGED <<lock, server_vars>>

\* update_databases: asyncio.create_task(download_with_semaphore(name, url))
CliStart ==
    /\ cli.pc = "entered"
    /\ cli' = [cli EXCEPT !.pc = "gathering",
                          !.task = [n \in CliDatabases |-> [NewTask EXCEPT !.pc = "get"]]]
    /\ CliUnchanged

\* async with self.session.get(url) as response: the request raises, or the
\* status is not 200, or it is 200 and open(temp_file, 'wb') creates the file
CliResponse(n) ==
    /\ cli.pc = "gathering"
    /\ cli.task[n].pc = "get"
    /\ \E outcome \in {"raised", "rejected", "ok"} :
          cli' = IF outcome = "ok"
                   THEN [cli EXCEPT !.task[n].pc = "stream", !.temp[n] = "empty"]
                   ELSE CliAttemptOver(cli, n)
    /\ CliUnchanged

\* async for chunk in response.content.iter_chunked(8192) raises midway
CliStreamFault(n) ==
    /\ cli.pc = "gathering"
    /\ cli.task[n].pc = "stream"
    /\ cli' = CliAttemptOver([cli EXCEPT !.temp[n] = "partial"], n)
    /\ CliUnchanged

\* the last chunk is written; validate_database_file fails: raise
CliInvalid(n) ==
    /\ cli.pc = "gathering"
    /\ cli.task[n].pc = "stream"
    /\ \E body \in CliBodies :
          /\ ~validate_database_file(body)
          /\ cli' = CliAttemptOver([cli EXCEPT !.temp[n] = body], n)
    /\ CliUnchanged

\* the last chunk is written, the file passes; shutil.move renames it onto
\* the target, or, across filesystems, copies it and unlinks the temp file
CliMove(n) ==
    /\ cli.pc = "gathering"
    /\ cli.task[n].pc = "stream"
    /\ \E body \in CliBodies :
          /\ validate_database_file(body)
          /\ cli' = [cli EXCEPT !.temp[n] = "absent", !.target[n] = body,
                                !.task[n].pc = "done",
                                !.downloaded_files = @ \cup {n}]
    /\ CliUnchanged

\* the file passes; temp_dir is on another filesystem, os.rename fails and
\* the copy onto the target raises midway
CliMoveFault(n) ==
    /\ cli.pc = "gathering"
    /\ cli.task[n].pc = "stream"
    /\ ~cli.same_fs
    /\ \E body \in CliBodies :
          /\ validate_database_file(body)
          /\ cli' = CliAttemptOver([cli EXCEPT !.temp[n] = body,
                                               !.target[n] = "partial"], n)
    /\ CliUnchanged

\* await asyncio.sleep(delay), then the next pass of the loop
CliWake(n) ==
    /\ cli.pc = "gathering"
    /\ cli.task[n].pc = "sleep"
    /\ cli' = [cli EXCEPT !.task[n].pc = "get", !.task[n].attempt = @ + 1]
    /\ CliUnchanged

\* await asyncio.gather(*tasks) returns; summary; raise if failed_files;
\* __aexit__ removes temp_dir
CliFinish ==
    /\ cli.pc = "gathering"
    /\ \A n \in CliDatabases : cli.task[n].pc \in {"done", "failed"}
    /\ cli' = [cli EXCEPT !.pc = IF cli.failed_files # {} THEN "raised" ELSE "returned",
                          !.temp = [n \in CliDatabases |-> "absent"]]
    /\ CliUnchanged

\* __init__ and __aenter__: empty sets, a new temp_dir, target_dir as the
\* earlier runs left it
CliInit ==
    /\ Started
    /\ remote = [d \in AVAILABLE_DATABASES |-> "good"]
    /\ cache_type = "memory"
    /\ qin = IdleQuery
    /\ qout = NotRun
    /\ hub = NoHub
    /\ cleaner = NoCleaner
    /\ lock = NoLock
    /\ \E same_fs \in BOOLEAN : \E files \in [CliDatabases -> {"absent", "old"}] :
          cli = [pc |-> "entered", same_fs |-> same_fs,
                 task |-> [n \in CliDatabases |-> NewTask],
                 temp |-> [n \in CliDatabases |-> "absent"],
                 target |-> files, before |-> files,
                 downloaded_files |-> {}, failed_files |-> {}]

CliNext ==
    \/ CliStart
    \/ \E n \in CliDatabases :
          \/ CliResponse(n)
          \/ CliStreamFault(n)
          \/ CliInvalid(n)
          \/ CliMove(n)
          \/ CliMoveFault(n)
          \/ CliWake(n)
    \/ CliFinish

SpecCli == CliInit /\ [][CliNext]_vars

(***************************************************************************)
(* Claims                                                                  *)
(***************************************************************************)

\* C1: a query never looks an address up in a reader that reload_databases
\* has closed, and the readers one query uses were all opened by the same
\* load, whatever reloads run before and after it (SpecSwap; it holds in
\* SpecServe as well).
C1_QueryOnOpenReadersOfOneGeneration ==
    /\ \A h \in lastq.used : ~h.closed
    /\ \A h1, h2 \in lastq.used : h1.gen = h2.gen

\* C1 witness: a query has been answered by the readers of the latest
\* reload, a reload that closed the readers before it and failed to open
\* one of the files.
C1_Witness ==
    /\ loads >= 2
    /\ hist.failed
    /\ lastq.used # {}
    /\ \A h \in lastq.used : h.gen = loads

\* C2 (as the specification states it): after a reload in which a file
\* failed to open, every kind that was available before the reload is
\* still available (SpecServe).
C2_FailedReloadKeepsReaders ==
    hist.failed => hist.before \subseteq Available(databases)

\* C3 (as the specification states it): at every instant the live path of
\* every catalog database holds a complete file, never one that is still
\* being written (Spec).
C3_LivePathComplete ==
    \A d \in AVAILABLE_DATABASES : Complete(live[d])

\* the file of d was rejected in the cycle c that is finishing: it was below
\* min_file_size on every attempt, or the validation step has failed and the
\* file does not open
Rejected(c, d) ==
    \/ remote[d] = "small" /\ dl[c][d].pc = "failed"
    \/ cycle'[c].validation = "failed" /\ ~Openable(live'[d])

\* C4 (as the specification states it): when a refresh cycle ends, the live
\* file of every database rejected in it is the file that was live when the
\* cycle began (Spec).
C4_RejectedFileUntouched ==
    [][\A c \in Cycles :
          (Running(c) /\ cycle'[c].pc = "done") =>
              \A d \in AVAILABLE_DATABASES :
                  Rejected(c, d) => live'[d] = cycle[c].before[d]]_vars

\* C5 (as the specification states it): at most one refresh cycle is
\* running at any time (Spec).
C5_OneCycleAtATime ==
    Cardinality({c \in Cycles : Running(c)}) <= 1

\* C6 (as the specification states it): two reload requests that were
\* outstanding at the same time are answered from one construction of the
\* reader set (SpecServe).
C6_OverlappingReloadsShareOneLoad ==
    \A a, b \in Admins :
        (/\ reloads[a].pc = "done"
         /\ reloads[b].pc = "done"
         /\ b \in reloads[a].overlapped)
            => reloads[a].gen = reloads[b].gen

\* C7 (as the specification states it): no reader is open on the file a
\* refresh cycle has written while another reader is open on a file that
\* the same cycle has replaced since (SpecServe).
C7_ReadersFromOneCycle ==
    \A c \in Cycles : \A k1, k2 \in DOMAIN databases :
        ~(/\ databases[k1].ver = c
          /\ databases[k2].ver < c
          /\ live[k2].ver = c)

\* C8 (as the specification states it): no query is answered from a cache
\* entry stored before the latest fully successful refresh cycle, and the
\* cache holds no such entry (SpecServe).
C8_NoAnswerCachedBeforeCycle ==
    /\ \A e \in lastq.hits : e.cached_in = lastq.at
    /\ \A key \in DOMAIN cache : cache[key].cached_in = hist.ok_cycles

\* C9: when a MaxMind reader and an IP2Location reader both return a value
\* for the same field of an IP, the merged result carries the IP2Location
\* value (the later source), and with full_data the provenance entry of the
\* field is the list MaxMind, IP2Location, in that order.
C9_MergePrecedence ==
    qout.done =>
        LET maxmind_data == _query_maxmind(qin.dbs, qin.R)
            ip2location_data == _query_ip2location(qin.dbs, qin.R, qin.ip)
        IN  \A f \in (DOMAIN maxmind_data) \cap (DOMAIN ip2location_data) :
                maxmind_data[f] # None =>
                    /\ ~qout.res.none
                    /\ f \in DOMAIN qout.res.d
                    /\ qout.res.d[f] = ip2location_data[f]
                    /\ qin.full_data =>
                          qout.res.d["_database_sources"][f]
                              = List(<<"MaxMind", "IP2Location">>)

\* C9 witness: City says country X, IP2Location v4 says country Y4, the
\* full_data query has run and reports Y4 with both providers.
C9_Witness ==
    /\ qout.done
    /\ qin.full_data
    /\ "maxmind_city" \in qin.dbs
    /\ qin.R["maxmind_city"].st = "rec"
    /\ qin.R["maxmind_city"].rec["country.name"] = "X"
    /\ Ip2LocationDb(qin.dbs, qin.ip) = "ip2location_v4"
    /\ qin.R["ip2location_v4"].st = "rec"
    /\ qin.R["ip2location_v4"].rec["country_long"] = "Y4"
    /\ qout.res.d["country"] = "Y4"
    /\ qout.res.d["_database_sources"]["country"] = List(<<"MaxMind", "IP2Location">>)


\* the result of the same request with e as its only entry
Alone(e) ==
    query_ips(<<e>>, lastq.full_data, databases, lastq.pre, cache_type, lastq.at).results

\* entry i of the last batch: InvalidInput and nothing consulted when it
\* does not parse, the result it gets alone when it does
EntryIsolated(i) ==
    LET ip == Strip(lastq.ips[i])
    IN  /\ ip \in DOMAIN lastq.results
        /\ IF IsIp(ip)
             THEN lastq.results[ip] = Alone(lastq.ips[i])[ip]
             ELSE lastq.results[ip] = InvalidIp /\ ip \notin lastq.looked_up

\* C10 (as the specification states it): every entry of a batch that does
\* not parse gets InvalidInput with no reader or cache consulted for it, and
\* every other entry gets the result it gets when queried alone (SpecBatch).
C10_EveryEntryIsolated ==
    \A i \in 1..Len(lastq.ips) : EntryIsolated(i)

\* C10 (amended): the same for every entry among the first query_rate_limit
\* entries of the batch; later entries are cut off and get no result.
C10_EntriesWithinLimitIsolated ==
    \A i \in 1..Len(lastq.ips) : i <= query_rate_limit => EntryIsolated(i)

\* C10 witness: a batch within the limit whose first entry does not parse
\* and whose second entry got a reader's answer.
C10_Witness ==
    /\ Len(lastq.ips) = 2
    /\ ~IsIp(Strip(lastq.ips[1]))
    /\ lastq.results[Strip(lastq.ips[1])] = InvalidIp
    /\ IsIp(Strip(lastq.ips[2]))
    /\ "error" \notin DOMAIN lastq.results[Strip(lastq.ips[2])]

\* no reader loaded in the current reader set returns data for ip: each one
\* consulted raises, returns no record, or (IP2Location) returns a record of
\* placeholders only
NoReaderData(ip) ==
    \A k \in Consulted(databases, ip) :
        LET a == ReaderAnswers(databases, ip)[k]
        IN  \/ a.st # "rec"
            \/ /\ k \in {"ip2location_v4", "ip2location_v6"}
               /\ \A x \in DOMAIN a.rec : a.rec[x] \in {None, "-"}

\* the request (ip, full_data) in the current state, and the same request
\* once more right after it
FirstQuery(ip, full_data) ==
    query_ips(<<ip>>, full_data, databases, cache, cache_type, hist.ok_cycles)

SecondQuery(ip, full_data) ==
    query_ips(<<ip>>, full_data, databases, FirstQuery(ip, full_data).cache,
              cache_type, hist.ok_cycles)

\* the request is answered NotFound, and so is its repetition, from the
\* cache and with no reader consulted
NotFoundTwice(ip, full_data) ==
    /\ FirstQuery(ip, full_data).results[ip] = not_found
    /\ SecondQuery(ip, full_data).results[ip] = not_found
    /\ SecondQuery(ip, full_data).used = {}
    /\ SecondQuery(ip, full_data).hits # {}

\* the last request repeated an earlier one: its key was in the cache
LastWasRepeat ==
    /\ Len(lastq.ips) = 1
    /\ IsIp(lastq.ips[1])
    /\ cache_key(lastq.ips[1], lastq.full_data) \in DOMAIN lastq.pre

C12_MissingReadersNotReportedNotFound ==
    (/\ Len(lastq.ips) = 1
     /\ IsIp(lastq.ips[1])
     /\ Consulted(databases, lastq.ips[1]) = {})
    => /\ lastq.results[lastq.ips[1]] # not_found
       /\ LET key == cache_key(lastq.ips[1], lastq.full_data)
          IN  key \in DOMAIN cache => cache[key].value # not_found

\* C12 witness: a query was answered on an empty reader set.
C12_Witness ==
    /\ Len(lastq.ips) = 1
    /\ IsIp(lastq.ips[1])
    /\ DOMAIN databases = {}
    /\ lastq.ips[1] \in DOMAIN lastq.results

\* the value v of result field f is null or the placeholder "-"
NullOrPlaceholder(f, v) ==
    CASE f \in {"_database_sources", "_databases_available"} -> FALSE
      [] f \in {"is_proxy", "is_vpn", "is_tor", "is_datacenter"} -> FALSE
      [] f = "proxy_type" -> v = <<"-">>
      [] OTHER -> v \in {None, "-"}

\* C13: every field present in a query result has a non-null,
\* non-placeholder value, for every combination of loaded readers and every
\* reader response (SpecQuery).
C13_NoNullOrPlaceholderValue ==
    (qout.done /\ ~qout.res.none) =>
        \A f \in DOMAIN qout.res.d : ~NullOrPlaceholder(f, qout.res.d[f])

\* C13 witness: a query on a City reader alone returned a result in which a
\* MaxMind field is null.
C13_Witness ==
    /\ qout.done
    /\ ~qout.res.none
    /\ qin.dbs = {"maxmind_city"}
    /\ "city" \in DOMAIN qout.res.d
    /\ qout.res.d["city"] = None

\* C14: for every database kind the reader set either has no entry or has
\* a reader whose open succeeded; get_database_status reports a kind true
\* only then, and no query is routed to a handle whose open did not succeed.
C14_AbsentOrFullyOpen ==
    \A k \in AVAILABLE_DATABASES :
        /\ k \in DOMAIN databases => databases[k].opened
        /\ get_database_status(DOMAIN databases)[k]
              => k \in DOMAIN databases /\ databases[k].opened
        /\ \A ip \in {"8.8.8.8", "2001:db8::1"} :
              k \in Consulted(databases, ip) => databases[k].opened

\* C14 witness: a reload ran on an IP2Location file that cannot be opened
\* and the reader set holds the unopened object, which the next IPv4 query
\* is routed to.
C14_Witness ==
    /\ loads > 1
    /\ Exists(live["ip2location_v4"])
    /\ ~Openable(live["ip2location_v4"])
    /\ "ip2location_v4" \in DOMAIN databases
    /\ ~databases["ip2location_v4"].opened
    /\ "ip2location_v4" \in Consulted(databases, "8.8.8.8")

\* the allow-list as the specification names it
EssentialThirteen ==
    {"country", "country_code", "city", "region", "postal_code", "isp",
     "organization", "timezone", "is_proxy", "is_vpn", "usage_type",
     "latitude", "longitude"}

\* C15: with full_data false every key of a returned result is one of the
\* 13 essential fields, each essential field of the merged data is kept with
\* its merged value, and no provenance or availability key is returned
\* (SpecQuery).
C15_EssentialFieldsOnly ==
    (qout.done /\ ~qin.full_data /\ ~qout.res.none) =>
        LET merged == Merged(qin.dbs, qin.R, qin.ip)
        IN  /\ Cardinality(EssentialThirteen) = 13
            /\ DOMAIN qout.res.d \subseteq EssentialThirteen
            /\ \A f \in (DOMAIN merged) \cap EssentialThirteen :
                  f \in DOMAIN qout.res.d /\ qout.res.d[f] = merged[f]
            /\ "_database_sources" \notin DOMAIN qout.res.d
            /\ "_databases_available" \notin DOMAIN qout.res.d

\* C15 witness: the merged data of a full_data false query held
\* accuracy_radius and proxy_type besides essential fields, and the result
\* returned holds the essential ones only.
C15_Witness ==
    /\ qout.done
    /\ ~qin.full_data
    /\ ~qout.res.none
    /\ {"accuracy_radius", "proxy_type", "country", "is_vpn"}
          \subseteq DOMAIN Merged(qin.dbs, qin.R, qin.ip)
    /\ {"country", "is_vpn"} \subseteq DOMAIN qout.res.d
    /\ "accuracy_radius" \notin DOMAIN qout.res.d

\* cycle c has ended with every download successful and validation passed
FullSuccess(c) ==
    /\ cycle[c].pc = "done"
    /\ \A d \in AVAILABLE_DATABASES : cycle[c].results[d]
    /\ cycle[c].validation = "passed"

\* every live file is a downloaded one, the readers have been loaded from
\* the live files by the latest load, and every catalog kind is available
SwappedAndReloaded ==
    /\ \A d \in AVAILABLE_DATABASES : Openable(live[d]) /\ live[d].ver \in Cycles
    /\ \A d \in AVAILABLE_DATABASES :
          /\ d \in DOMAIN databases
          /\ databases[d].opened
          /\ ~databases[d].closed
          /\ databases[d].gen = loads
          /\ databases[d].ver = live[d].ver
    /\ \A d \in AVAILABLE_DATABASES : get_database_status(DOMAIN databases)[d]

\* C16: at the end of a refresh cycle in which every catalog database was
\* downloaded and validation passed, every file has been swapped, the
\* readers have been reloaded, the status reports every catalog kind
\* available, and the cycle has called clear_all() exactly once.
C16_FullSuccessCycle ==
    [][\A c \in Cycles :
          (Running(c) /\ FullSuccess(c)') =>
              /\ SwappedAndReloaded'
              /\ loads' = loads + 1
              /\ cycle[c].clears = 0
              /\ cycle'[c].clears = 1]_vars

\* C16 witness: a cycle has ended in full success, the readers of its reload
\* are the ones loaded and clear_all() was called once.
C16_Witness ==
    \E c \in Cycles :
        /\ FullSuccess(c)
        /\ SwappedAndReloaded
        /\ loads = 2
        /\ cycle[c].clears = 1

\* in the cycle c that is finishing, bad is the one database whose file was
\* rejected and every other database was downloaded from a good source
OneRejected(c, bad) ==
    /\ Rejected(c, bad)
    /\ \A d \in AVAILABLE_DATABASES \ {bad} : remote[d] = "good" /\ dl[c][d].pc = "ok"

\* C17: when a refresh cycle ends in which one database failed validation
\* and the others succeeded, the outcome of that database is failed, the
\* good files are live, the bad file is neither on the live path nor left as
\* a temp file, and the reload has run, so that the readers serve the new
\* files and the old file of the failed database.
C17_OneRejectedDiscarded ==
    [][\A c \in Cycles :
          (Running(c) /\ cycle'[c].pc = "done") =>
              \A bad \in AVAILABLE_DATABASES :
                  OneRejected(c, bad) =>
                      /\ ~cycle'[c].results[bad]
                      /\ \A d \in AVAILABLE_DATABASES \ {bad} :
                            /\ cycle'[c].results[d]
                            /\ Openable(live'[d])
                            /\ live'[d].ver \in Cycles
                            /\ d \in DOMAIN databases'
                            /\ databases'[d].ver = live'[d].ver
                            /\ databases'[d].opened
                      /\ live'[bad] = cycle[c].before[bad]
                      /\ \A a \in Attempts : temp'[bad][a] = NoFile
                      /\ loads' = loads + 1
                      /\ bad \in DOMAIN databases'
                      /\ databases'[bad].ver = cycle[c].before[bad].ver
                      /\ databases'[bad].opened
                      /\ databases'[bad].gen = loads']_vars

\* C17 witness: a cycle has ended in which the validation step failed on
\* the one file from a corrupt source, and that file is the live file.
C17_Witness ==
    \E c \in Cycles, bad \in AVAILABLE_DATABASES :
        /\ cycle[c].pc = "done"
        /\ cycle[c].validation = "failed"
        /\ remote[bad] = "corrupt"
        /\ \A d \in AVAILABLE_DATABASES \ {bad} : remote[d] = "good" /\ cycle[c].results[d]
        /\ live[bad].body = "corrupt"
        /\ cycle[c].results[bad]

\* a refresh cycle is running or a reload request is outstanding
RefreshOrReloadInProgress ==
    \/ \E c \in Cycles : Running(c)
    \/ \E a \in Admins : reloads[a].pc = "pending"

PartialFailure(c) ==
    /\ cycle[c].pc = "done"
    /\ \E d \in AVAILABLE_DATABASES : cycle[c].results[d]
    /\ \E d \in AVAILABLE_DATABASES : ~cycle[c].results[d]

\* C19: a refresh cycle in which at least one but not all databases failed
\* gives its caller (scheduler or admin trigger) something different from
\* what a fully successful cycle gives; the outcome has one entry for each
\* catalog database, and a failed database does not make a database with a
\* good source fail (SpecServe).
C19_PartialFailureSignalled ==
    \A c \in 1..ServeCycles :
        cycle[c].pc = "done" =>
            /\ DOMAIN cycle[c].results = AVAILABLE_DATABASES
            /\ \A d \in AVAILABLE_DATABASES : remote[d] = "good" => cycle[c].results[d]
            /\ PartialFailure(c) =>
                  CallerSees(cycle[c].trigger, cycle[c].results)
                      # CallerSees(cycle[c].trigger, [d \in AVAILABLE_DATABASES |-> TRUE])

\* C19 witness: a cycle triggered through the admin endpoint has ended with
\* one database failed and the other downloaded.
C19_Witness ==
    \E c \in 1..ServeCycles :
        /\ PartialFailure(c)
        /\ cycle[c].trigger = "admin"
        /\ \E d \in AVAILABLE_DATABASES : remote[d] = "good" /\ cycle[c].results[d]

\* the answer to the request (ip, full_data) computed from the readers, with
\* no cache
FreshQuery(ip, full_data) ==
    query_ips(<<ip>>, full_data, databases, [k \in {} |-> EmptyDict], "none",
              hist.ok_cycles)

\* C20: after any sequence of queries, the request (ip, full_data) is given
\* the result of a query of that address with that full_data, never the
\* result stored for the same address with the other full_data (SpecRepeat,
\* where the readers do not change).
C20_CacheKeyedByIpAndFullData ==
    /\ \A ip \in {x \in RepeatIps : IsIp(x)}, full_data \in BOOLEAN :
          /\ FirstQuery(ip, full_data).results = FreshQuery(ip, full_data).results
          /\ \A e \in FirstQuery(ip, full_data).hits :
                e.value = FreshQuery(ip, full_data).results[ip]
    /\ (Len(lastq.ips) = 1 /\ IsIp(lastq.ips[1])) =>
          lastq.results = FreshQuery(lastq.ips[1], lastq.full_data).results

\* C20 witness: the last request asked for full_data and was answered from
\* the cache, with provenance, while the cache also held the different
\* result stored for the same address without full_data.
C20_Witness ==
    /\ LastWasRepeat
    /\ lastq.full_data
    /\ lastq.hits # {}
    /\ "_database_sources" \in DOMAIN lastq.results[lastq.ips[1]]
    /\ cache_key(lastq.ips[1], FALSE) \in DOMAIN lastq.pre
    /\ lastq.pre[cache_key(lastq.ips[1], FALSE)].value # lastq.results[lastq.ips[1]]

\* C21: the status has exactly the 7 kinds as its keys, and the value of
\* each kind is true if and only if the reader set queries are served from
\* has an entry for the kind; after the initial load and after every reload.
C21_StatusReflectsReaderSet ==
    LET status == get_database_status(DOMAIN databases)
    IN  /\ DOMAIN status = Kinds
        /\ Cardinality(DOMAIN status) = 7
        /\ \A k \in Kinds : status[k] \in BOOLEAN
        /\ \A k \in Kinds : status[k] <=> k \in DOMAIN databases
        /\ \A k \in Kinds, ip \in {"8.8.8.8", "2001:db8::1"} :
              k \in Consulted(databases, ip) => status[k]

\* C21 witness: after a reload one catalog kind is missing from the reader
\* set and reported false while another is loaded and reported true.
C21_Witness ==
    /\ loads > 1
    /\ \E k1, k2 \in AVAILABLE_DATABASES :
          /\ k1 \notin DOMAIN databases
          /\ ~get_database_status(DOMAIN databases)[k1]
          /\ k2 \in DOMAIN databases
          /\ get_database_status(DOMAIN databases)[k2]

\* C22: a delete is issued for a dated PR tag only if its last_updated is
\* strictly earlier than now minus pr_retention_days, and for a SHA tag only
\* if it is strictly earlier than now minus sha_retention_days; a tag whose
\* age is the retention period exactly, or less, is kept (SpecCleanup).
C22_DeletedOnlyPastRetention ==
    \A i \in cleaner.issued :
        LET tag == hub.tags[i]
        IN  tag.updated.k = "time" =>
                /\ pr_pattern(tag.name) =>
                      tag.updated.t < cleaner.now - Days(pr_retention_days)
                /\ sha_pattern(tag.name) =>
                      tag.updated.t < cleaner.now - Days(sha_retention_days)

\* C22 witness: a delete was issued for a PR tag whose age is the retention
\* period exactly.
C22_Witness ==
    \E i \in cleaner.issued :
        /\ pr_pattern(hub.tags[i].name)
        /\ hub.tags[i].updated = Updated(cleaner.now - Days(pr_retention_days))
        /\ i \notin hub.present

\* the tag is not classified as a PR or SHA tag: it is protected or of
\* unknown format
NotDeletable(name) ==
    protected_pattern(name) \/ ~(pr_pattern(name) \/ sha_pattern(name))

\* C23: whatever their age, no delete is issued for a tag that matches the
\* protected pattern or none of the patterns, and such a tag is still in
\* the repository; only tags classified as PR or SHA are deleted
\* (SpecCleanup).
C23_OnlyPrOrShaDeleted ==
    \A i \in 1..Len(hub.tags) :
        NotDeletable(hub.tags[i].name) =>
            /\ i \notin cleaner.issued
            /\ i \in hub.present

\* C23 witness: the delete issued for an expired SHA tag removed the
\* manifest that the protected tag latest points to as well.
C23_Witness ==
    \E i, j \in 1..Len(hub.tags) :
        /\ sha_pattern(hub.tags[i].name)
        /\ i \in cleaner.issued
        /\ hub.tags[j].name = <<"l", "a", "t", "e", "s", "t">>
        /\ hub.tags[j].digest = hub.tags[i].digest
        /\ j \notin hub.present

\* C24: within one refresh cycle every download of the cycle, and with it
\* every replace of a live file by the cycle, has ended before the cycle
\* reloads the readers; once the cycle has reloaded, none of its downloads
\* takes another step.
ReloadOf(c) == cycle[c].pc = "downloading" /\ cycle'[c].pc = "done"

C24_SwapsBeforeReload ==
    [][\A c \in Cycles :
          /\ ReloadOf(c) =>
                /\ \A d \in AVAILABLE_DATABASES : dl[c][d].pc \in {"ok", "failed"}
                /\ loads' = loads + 1
                /\ live' = live
          /\ cycle[c].pc = "done" => dl'[c] = dl[c]]_vars

\* a cycle has reloaded the readers after it replaced a live file and
\* after another of its downloads failed on its last attempt
C24_Witness ==
    \E c \in Cycles :
        /\ cycle[c].pc = "done"
        /\ \E d \in AVAILABLE_DATABASES : dl[c][d].pc = "ok" /\ live[d] # cycle[c].before[d]
        /\ \E d \in AVAILABLE_DATABASES : dl[c][d].pc = "failed"

\* C25: a finished refresh cycle in which a database failed to download,
\* or in which validation failed, has replaced no live file.
CycleFailed(c) ==
    \/ \E d \in AVAILABLE_DATABASES : ~cycle[c].results[d]
    \/ cycle[c].validation = "failed"

C25_PromotedOnlyIfAllSucceed ==
    \A c \in Cycles :
        cycle[c].pc = "done" /\ CycleFailed(c) => live = cycle[c].before

\* the only cycle so far has ended with a failed download and validation
\* skipped, and the live file of another database is the one it downloaded
C25_Witness ==
    /\ cycle[1].pc = "done"
    /\ \A c \in Cycles : c # 1 => cycle[c].pc = "idle"
    /\ cycle[1].validation = "skipped"
    /\ \E d \in AVAILABLE_DATABASES :
          /\ cycle[1].results[d]
          /\ live[d] # cycle[1].before[d]
          /\ live[d].ver = 1

\* C26: every refresh cycle that has started ends: update_databases
\* returns, with one result per database, after at most max_retries
\* attempts for each of them.
Returned(c) ==
    /\ cycle[c].pc = "done"
    /\ DOMAIN cycle[c].results = AVAILABLE_DATABASES
    /\ \A d \in AVAILABLE_DATABASES :
          /\ dl[c][d].pc \in {"ok", "failed"}
          /\ dl[c][d].attempt <= max_retries
          /\ cycle[c].results[d] = (dl[c][d].pc = "ok")

C26_CycleTerminates == \A c \in Cycles : Running(c) ~> Returned(c)

\* a cycle has returned after the last attempt for one database failed
C26_Witness ==
    \E c \in Cycles :
        /\ Returned(c)
        /\ \E d \in AVAILABLE_DATABASES :
              dl[c][d].pc = "failed" /\ dl[c][d].attempt = max_retries

\* C27: a download_database task makes at most max_retries attempts, has
\* waited retry_delay * 2^(k-1) seconds between attempt k and attempt k+1 and
\* nothing after its last attempt, gives up only after attempt max_retries,
\* takes no step after its first successful attempt, and its result is
\* true exactly when an attempt succeeded.
Backoff(n) == [k \in 1..n |-> retry_delay * 2 ^ (k - 1)]

RetriedWithBackoff ==
    \A c \in Cycles, d \in AVAILABLE_DATABASES :
        dl[c][d].pc # "none" =>
          /\ dl[c][d].attempt \in 1..max_retries
          /\ dl[c][d].slept = Backoff(dl[c][d].attempt - 1)
          /\ dl[c][d].pc = "failed" => dl[c][d].attempt = max_retries
          /\ cycle[c].pc = "done" => cycle[c].results[d] = (dl[c][d].pc = "ok")

StopsAtFirstSuccess ==
    \A c \in Cycles, d \in AVAILABLE_DATABASES :
        dl[c][d].pc \in {"ok", "failed"} => dl'[c][d] = dl[c][d]

C27_RetryWithBackoff == []RetriedWithBackoff /\ [][StopsAtFirstSuccess]_vars

\* in one finished cycle a download has succeeded on its second attempt
\* after waiting 5 seconds, and another has failed three times, waiting 5
\* and then 10 seconds
C27_Witness ==
    \E c \in Cycles :
        /\ cycle[c].pc = "done"
        /\ \E d \in AVAILABLE_DATABASES :
              /\ dl[c][d].pc = "ok" /\ dl[c][d].attempt = 2
              /\ dl[c][d].slept = <<5>>
              /\ cycle[c].results[d]
        /\ \E d \in AVAILABLE_DATABASES :
              /\ dl[c][d].pc = "failed" /\ dl[c][d].slept = <<5, 10>>
              /\ ~cycle[c].results[d]

\* C28: a download whose every response is a rejection (a status other
\* than 200, such as 403 or 404), and which met no timeout or connection
\* error, is at its first attempt: it is not retried.
C28_RejectionNotRetried ==
    \A c \in Cycles, d \in AVAILABLE_DATABASES :
        (dl[c][d].pc # "none" /\ remote[d] = "missing" /\ faults = 0)
            => dl[c][d].attempt = 1

\* a rejected download has ended as failed after max_retries attempts and
\* both waits, without any transient error
C28_Witness ==
    \E c \in Cycles, d \in AVAILABLE_DATABASES :
        /\ remote[d] = "missing" /\ faults = 0
        /\ dl[c][d].pc = "failed"
        /\ dl[c][d].attempt = max_retries
        /\ Len(dl[c][d].slept) = max_retries - 1

\* C29: when the stream of an attempt ends with fewer than min_file_size
\* bytes, the attempt is failed, its temp file is removed and no live file
\* changes in that step.
SmallFileReceived(c, d) ==
    /\ dl[c][d].pc \in {"writing", "reading"}
    /\ Downloaded(remote[d]) < min_file_size
    /\ dl'[c][d] # dl[c][d]
    /\ faults' = faults

C29_SmallFileRejected ==
    [][\A c \in Cycles, d \in AVAILABLE_DATABASES :
          SmallFileReceived(c, d) =>
            /\ dl'[c][d] = AttemptFailed(dl[c][d])
            /\ temp'[d][dl[c][d].attempt] = NoFile
            /\ live' = live]_vars

\* a download that received fewer than min_file_size bytes has returned
\* True and its file is the live file
C29_Witness ==
    \E c \in Cycles, d \in AVAILABLE_DATABASES :
        /\ remote[d] = "small"
        /\ dl[c][d].pc = "ok"
        /\ live[d] = [ver |-> c, body |-> remote[d], writers |-> {}]

\* C30: no file at a live path is open for writing or partially written;
\* an attempt that has failed has left no file of its own at its temp path;
\* and when a refresh cycle finishes, no temp file is left.
NoDirectWrite ==
    \A d \in AVAILABLE_DATABASES : live[d].writers = {} /\ live[d].body # "partial"

FailedAttemptCleaned ==
    \A c \in Cycles, d \in AVAILABLE_DATABASES, k \in Attempts :
        (/\ dl[c][d].pc # "none"
         /\ \/ k < dl[c][d].attempt
            \/ k = dl[c][d].attempt /\ dl[c][d].pc = "failed")
            => ~(Exists(temp[d][k]) /\ temp[d][k].ver = c)

NoTempAfterCycle ==
    \A c \in Cycles :
        (Running(c) /\ cycle'[c].pc = "done")
            => \A d \in AVAILABLE_DATABASES, k \in Attempts : ~Exists(temp'[d][k])

C30_TempFilesOnly ==
    [](NoDirectWrite /\ FailedAttemptCleaned) /\ [][NoTempAfterCycle]_vars

\* a cycle is streaming into a file that another cycle has moved to the
\* live path
C30_Witness ==
    \E c \in Cycles, d \in AVAILABLE_DATABASES :
        /\ dl[c][d].pc = "writing"
        /\ c \in live[d].writers
        /\ ~Exists(temp[d][dl[c][d].attempt])

\* C31: a step of one database's download in a running cycle, a failure
\* included, changes nothing of a sibling's download, temp files or live
\* file; and a cycle ends with a result for every database, each database
\* succeeding exactly when its own source serves a file of sufficient size,
\* with that file live, and keeping its previous live file otherwise.
SiblingsUntouched ==
    \A c \in Cycles, d \in AVAILABLE_DATABASES :
        (Running(c) /\ dl'[c][d] # dl[c][d]) =>
            \A e \in AVAILABLE_DATABASES \ {d} :
                dl'[c][e] = dl[c][e] /\ temp'[e] = temp[e] /\ live'[e] = live[e]

OwnOutcome ==
    \A c \in Cycles :
        (Running(c) /\ cycle'[c].pc = "done") =>
            /\ DOMAIN cycle'[c].results = AVAILABLE_DATABASES
            /\ \A d \in AVAILABLE_DATABASES :
                  /\ cycle'[c].results[d] = (remote[d] \in {"good", "corrupt"})
                  /\ live'[d] = IF remote[d] \in {"good", "corrupt"}
                                  THEN [ver |-> c, body |-> remote[d], writers |-> {}]
                                  ELSE cycle[c].before[d]

OwnFamily(ip) == IF HasColon(ip) THEN "ip2location_v6" ELSE "ip2location_v4"

C32_ReaderByAddressFamily ==
    qout.done =>
        Ip2LocationDb(qin.dbs, qin.ip) =
            IF OwnFamily(qin.ip) \in qin.dbs THEN OwnFamily(qin.ip) ELSE None

\* an IPv6 address has been answered with the record of the IPv4 reader,
\* the only reader loaded
C32_Witness ==
    /\ qout.done
    /\ qin.ip = "2001:db8::1" /\ qin.full_data
    /\ qin.dbs = {"ip2location_v4"}
    /\ ~qout.res.none
    /\ "country" \in DOMAIN qout.res.d /\ qout.res.d["country"] = "Y4"

\* C33: with the City reader loaded the answer of a query does not depend
\* on the Country reader, whether the City lookup succeeds or raises; with
\* the Country reader alone loaded and answering, a query that is not
\* full_data returns exactly country and country_code.
WithoutCountry(R) == [R EXCEPT !["maxmind_country"] = Raise]

C33_CountryOnlyWithoutCity ==
    qout.done =>
        /\ "maxmind_city" \in qin.dbs =>
              qout.res = query(qin.dbs, WithoutCountry(qin.R), qin.ip, qin.full_data)
        /\ (/\ qin.dbs = {"maxmind_country"}
            /\ qin.R["maxmind_country"].st = "rec"
            /\ ~qin.full_data) =>
              /\ ~qout.res.none
              /\ qout.res.d = [country |-> "XC", country_code |-> "XC"]

\* City and Country are loaded, the City lookup raised, the Country reader
\* has a record for the address, and the query found nothing
C33_Witness ==
    /\ qout.done
    /\ qin.dbs = {"maxmind_city", "maxmind_country"}
    /\ qin.R["maxmind_city"].st = "raise"
    /\ qin.R["maxmind_country"].st = "rec"
    /\ qout.res.none

\* C34: when the IP2Proxy reader returns a record, the merged result holds
\* is_proxy, is_vpn, is_tor and is_datacenter as booleans: is_proxy is true
\* when the record's is_proxy is positive, and the other three are true
\* exactly when is_proxy is true and proxy_type lists VPN, TOR and DCH;
\* these are the values a full_data query returns.
Lists(rec, ptype) ==
    /\ "proxy_type" \in DOMAIN rec
    /\ \E i \in 1..Len(rec["proxy_type"]) : rec["proxy_type"][i] = ptype

ProxyFlags(rec) ==
    [is_proxy |-> rec["is_proxy"] > 0,
     is_vpn |-> rec["is_proxy"] > 0 /\ Lists(rec, "VPN"),
     is_tor |-> rec["is_proxy"] > 0 /\ Lists(rec, "TOR"),
     is_datacenter |-> rec["is_proxy"] > 0 /\ Lists(rec, "DCH")]

C34_ProxyFlags ==
    (qout.done /\ "ip2proxy" \in qin.dbs /\ qin.R["ip2proxy"].st = "rec") =>
        LET merged == Merged(qin.dbs, qin.R, qin.ip)
            flags == ProxyFlags(qin.R["ip2proxy"].rec)
        IN  \A k \in DOMAIN flags :
                /\ k \in DOMAIN merged
                /\ merged[k] \in BOOLEAN
                /\ merged[k] = flags[k]
                /\ qin.full_data => (~qout.res.none /\ qout.res.d[k] = flags[k])

\* IP2Proxy reported is_proxy = 1 with proxy_type VPN and the full_data
\* query answered is_proxy and is_vpn true, is_tor and is_datacenter false
C34_Witness ==
    /\ qout.done /\ qin.full_data
    /\ "ip2proxy" \in qin.dbs
    /\ qin.R["ip2proxy"] = Rec([is_proxy |-> 1, proxy_type |-> <<"VPN">>])
    /\ ~qout.res.none
    /\ qout.res.d["is_proxy"] /\ qout.res.d["is_vpn"]
    /\ ~qout.res.d["is_tor"] /\ ~qout.res.d["is_datacenter"]

\* C35: no cache entry holds an invalid-IP error or a 'Query failed'
\* error, and an entry of the last request that was answered with one of
\* these errors has no cache entry under its key, so that the same request
\* would be evaluated again.
ErrorResults == {InvalidIp, QueryFailed}

C35_ErrorsNotCached ==
    /\ \A key \in DOMAIN cache : cache[key].value \notin ErrorResults
    /\ \A ip \in DOMAIN lastq.results :
          lastq.results[ip] \in ErrorResults =>
              ~CacheHit(cache, cache_type, cache_key(ip, lastq.full_data))

\* a request for a valid address, an address the reader raised for and an
\* entry that is no address has been answered, and only the first is cached
C35_Witness ==
    /\ cache_type = "memory"
    /\ Len(lastq.ips) >= 2
    /\ \E ip \in DOMAIN lastq.results : lastq.results[ip] = QueryFailed
    /\ \E ip \in DOMAIN lastq.results :
          /\ lastq.results[ip] \notin ErrorResults
          /\ CacheHit(cache, cache_type, cache_key(ip, lastq.full_data))
    /\ \E key \in DOMAIN lastq.pre : key \in DOMAIN cache

\* C36: the cleanup at the end of one cycle leaves in place the temp file
\* that a download of another, still running cycle is writing.
InFlight(c, d) == Running(c) /\ dl[c][d].pc = "writing"

C36_CleanupSparesInFlight ==
    [][\A c \in Cycles :
          (Running(c) /\ cycle'[c].pc = "done") =>
              \A b \in Cycles \ {c}, d \in AVAILABLE_DATABASES :
                  (InFlight(b, d) /\ Exists(temp[d][dl[b][d].attempt]))
                      => Exists(temp'[d][dl[b][d].attempt])]_vars

\* a cycle has finished and cleaned up while another cycle is streaming a
\* database: the file that cycle writes is at neither its temp path nor
\* the live path
C36_Witness ==
    \E c, b \in Cycles, d \in AVAILABLE_DATABASES :
        /\ c # b
        /\ cycle[c].pc = "done"
        /\ InFlight(b, d)
        /\ ~Exists(temp[d][dl[b][d].attempt])
        /\ b \notin live[d].writers

\* acquire() has returned True in process p and p has not called release
HoldsLock(p) == lock.proc # <<>> /\ lock.proc[p].pc = "held"

\* C37: LockFile gives mutual exclusion between geoip-update processes:
\* while acquire() has returned True in one process and that process has not
\* released, acquire() has not returned True in another process, for every
\* interleaving of the processes and whether or not a stale lock file of a
\* dead process was there.
C37_MutualExclusion ==
    \A p \in Procs : \A q \in Procs :
        HoldsLock(p) /\ HoldsLock(q) => p = q

\* C37 witness: two processes hold the lock at once, each with an flock on
\* a file of its own, and only one of the files is at LOCK_FILE.
C37_Witness ==
    \E p \in Procs : \E q \in Procs :
        /\ p # q
        /\ HoldsLock(p) /\ HoldsLock(q)
        /\ lock.proc[p].fd # lock.proc[q].fd
        /\ lock.holder[p] = p /\ lock.holder[q] = q
        /\ lock.path = {q}
\* download_database(n) has gone through all its attempts without success
AllAttemptsFailed(n) == cli.task[n].pc = "failed"

\* C38: download_database replaces the target file only with a downloaded
\* file that passed validate_database_file: a target that differs from what
\* the run found is such a file; after max_retries failed attempts the target
\* is unchanged and the name is in failed_files and not in downloaded_files;
\* after a success the name is in downloaded_files only.
C38_TargetOnlyValidated ==
    cli.pc # "none" =>
        \A n \in CliDatabases :
            /\ cli.target[n] # cli.before[n] =>
                   cli.target[n] \in CliBodies /\ validate_database_file(cli.target[n])
            /\ AllAttemptsFailed(n) =>
                   /\ cli.target[n] = cli.before[n]
                   /\ n \in cli.failed_files
                   /\ n \notin cli.downloaded_files
            /\ cli.task[n].pc = "done" =>
                   /\ n \in cli.downloaded_files
                   /\ n \notin cli.failed_files

\* C38 witness: all attempts for a name have failed, it is in failed_files,
\* and the good database the run found at the target is now a truncated copy.
C38_Witness ==
    /\ cli.pc = "raised"
    /\ \E n \in CliDatabases :
          /\ AllAttemptsFailed(n)
          /\ Len(cli.task[n].slept) = DEFAULT_RETRIES - 1
          /\ n \in cli.failed_files
          /\ cli.before[n] = "old"
          /\ cli.target[n] = "partial"
====
